---- MODULE Spec2Model ----
(***************************************************************************)
(* Model of the MQTT broker, the MQTT client library and the coordination  *)
(* logic (cameras, monitoring station) of the surveillance platform.       *)
(*                                                                         *)
(* The subsystems are independent processes; each gets its own             *)
(* specification over the shared variable list:                            *)
(*   SpecCamera     - Camera operations (apps/sist_camaras/camera.rs) and  *)
(*                    the incidents the camera system processes            *)
(*   SpecCameraApi  - the Camera operations alone                          *)
(*   SpecMonitor    - UISistemaMonitoreo message handlers                  *)
(*   SpecClient     - MQTTClient / MQTTClientWriter                        *)
(*   SpecPacketId   - the writer's 16-bit packet id counter alone          *)
(*   SpecBroker     - MessageProcessor of the broker                       *)
(*   SpecBrokerInline - its handlers, over a server whose calls may fail    *)
(*   SpecDispatch   - handle_packets up to its return, one client          *)
(*   SpecConnection - connecting to and disconnecting from the broker      *)
(*   SpecIncidentId - the monitor's 8-bit incident id generators           *)
(*   SpecCamPublisher - the publishing loops of the camera system          *)
(*   SpecPeriodic   - the periodic incident publisher of the monitor       *)
(*   SpecCodec      - wire codecs and constructors, one call each          *)
(***************************************************************************)
EXTENDS Integers, Sequences, FiniteSets, TLC

(***************************************************************************)
(* Bounds of the model.                                                    *)
(***************************************************************************)
MaxCams == 2        \* camera ids are 1..MaxCams
MaxCamOps == 3      \* length of the sequences of Camera calls explored

MaxDrones == 2      \* drone ids are 1..MaxDrones
MaxMonIncs == 1     \* incident ids seen by the monitor are 1..MaxMonIncs
MaxMonMsgs == 5     \* messages and UI events the monitor handles

MaxHandles == 2     \* MQTTClient handles (the connected one and its clones)
MaxCliOps == 4      \* calls made on the client library

MaxPackets == 3     \* packets the connected clients send to the broker
MaxFaults == 1      \* calls into the MQTTServer that return Err

MaxDisconnects == 2 \* calls of mqtt_disconnect on one connection
MaxApiIncidents == 256 \* incidents added through the gtk UI
MaxFilters == 2      \* (topic, qos) filters of a SubscribeMessage

MaxDetected == 2    \* incidents the AI detector sends to the camera system
MaxCamUpdates == 1  \* camera updates queued for publication on Cam

MaxPerIncidents == 2 \* incidents added to the periodic publisher's list
MaxPeriods == 4     \* periods of the periodic incident publisher

VARIABLES
    cameras,                \* HashMap<u8, Camera>: camera id -> Camera
    cam_ops,                \* number of Camera calls applied so far (bound only)
    cam_last,               \* the last Camera call applied: [op, cam, arg, changed]
    incidents_to_resolve,   \* UISistemaMonitoreo: Vec<IncidentWithDrones>
    hashmap_incidents,      \* UISistemaMonitoreo: HashMap<IncidentInfo, Incident>
    last_incident_id,       \* UISistemaMonitoreo: u8
    publish_incident_tx,    \* incidents sent on publish_incident_tx, in order
    mon_added,              \* IncidentInfos add_incident was called for (history)
    mon_msgs,               \* number of events the monitor handled (bound only)
    mon_last,               \* topic of the last message the monitor handled
    writers,                \* MQTTClient handle -> its MQTTClientWriter
    stream,                 \* packets written to the connection's socket, in order
    cli_acked,              \* indices of stream whose PUBACK has arrived (history)
    cli_resent,             \* indices of stream written by resend_msg (history)
    cli_returned,           \* results returned by the client calls, in order (history)
    cli_ops,                \* number of client calls made (bound only)
    pid_prev,               \* packet id minted before the last one, -1 if none (history)
    pid_last,               \* last packet id generate_packet_id minted, -1 if none (history)
    rx_1,                   \* channel of handle_packets: packets read from the clients
    pool,                   \* "none" before create_thread_pool_with, then "ok" or "failed"
    spawned,                \* closures spawned on the thread pool that have not run yet
    subscriptions,          \* MQTTServer: client id -> topic -> granted QoS
    retained,               \* MQTTServer: topic -> last message published on it
    in_flight,              \* MQTTServer: client id -> <<topic, packet id>> awaiting PUBACK
    srv_packet_id,          \* MQTTServer: client id -> last packet id minted for it
    outbox,                 \* packets the broker wrote to each client, in order
    brk_next_pid,           \* client id -> last packet id the client used
    brk_sent,               \* number of packets the clients sent (bound, arrival order)
    brk_done,               \* packets process_packet has handled (history)
    connected,              \* MQTTServer: client id -> its connection is open
    tx_open,                \* a Sender of the channel of handle_packets is alive
    handle_packets_result,  \* "none" while handle_packets runs, then "Ok"
    brk_times,              \* n -> times packet n was passed to process_packet
    brk_calls,              \* calls the handlers made into the server (history)
    faults_left,            \* calls into the server that may still return Err
    con_args,               \* arguments of mqtt_connect_to_broker, "none" before the call
    con_first,              \* <<what the client read after sending CONNECT>>, <<>> if nothing
    con_result,             \* "none", or "Ok" / "Err" returned by mqtt_connect_to_broker
    con_listener,           \* the listener thread was spawned
    con_stream,             \* "none", "open", "shutdown" or "dropped": the client's socket
    con_calls,              \* writes and shutdowns made on the socket, in order, with results
    con_returned,           \* results of the mqtt_disconnect calls, in order (history)
    ui_inc_ids,             \* ids get_next_incident_id returned (history)
    ui_inc_dup,             \* get_next_incident_id returned an id it had returned before (history)
    ui_panicked,            \* the UI thread panicked on an overflowing addition
    api_incidents_len,      \* SistemaMonitoreo: incidents.len()
    api_inc_ids,            \* ids generate_new_incident_id returned (history)
    api_inc_dup,            \* generate_new_incident_id returned an id it had returned before (history)
    cod_op,                 \* codec call made, "none" before it
    cod_in,                 \* its input
    cod_out                 \* its result

VARIABLES
    det_sent,               \* incidents the AI detector has sent, in order
    inc_rx,                 \* Receiver<Incident>: incidents not yet received
    inc_tx_open,            \* the detector still holds its Sender
    inc_thread,             \* the recv-and-publish thread: "running" / "finished"
    cam_sent,               \* camera updates sent for publication, in order
    cam_rx,                 \* Receiver<Vec<u8>>: camera updates not yet received
    cam_tx_open,            \* a Sender of camera updates is still alive
    cam_thread,             \* publish_to_topic: "running" / "finished"
    pub_attempts,           \* calls of mqtt_publish: [topic, payload, ok]
    pub_log                 \* lines written to the logger by the two loops

VARIABLES
    per_incidents,          \* Vec<Incident> of SistemaMonitoreo: [id, sent]
    per_attempts,           \* calls of mqtt_publish: [idx, id, ok, period]
    per_periods             \* calls of publish_incident made by the loop of main

camVars == <<cameras, cam_ops, cam_last>>

monVars == <<incidents_to_resolve, hashmap_incidents, last_incident_id,
             publish_incident_tx, mon_added, mon_msgs, mon_last>>

cliVars == <<writers, stream, cli_acked, cli_resent, cli_returned, cli_ops,
             pid_prev, pid_last>>

brkVars == <<rx_1, pool, spawned, subscriptions, retained, in_flight, srv_packet_id,
             outbox, brk_next_pid, brk_sent, brk_done, connected,
             tx_open, handle_packets_result, brk_times, brk_calls, faults_left>>

conVars == <<con_args, con_first, con_result, con_listener, con_stream, con_calls,
             con_returned>>

idVars == <<ui_inc_ids, ui_inc_dup, ui_panicked, api_incidents_len, api_inc_ids, api_inc_dup>>

codVars == <<cod_op, cod_in, cod_out>>

pubVars == <<det_sent, inc_rx, inc_tx_open, inc_thread, cam_sent, cam_rx, cam_tx_open,
             cam_thread, pub_attempts, pub_log>>

perVars == <<per_incidents, per_attempts, per_periods>>

vars == <<cameras, cam_ops, cam_last,
          incidents_to_resolve, hashmap_incidents, last_incident_id,
          publish_incident_tx, mon_added, mon_msgs, mon_last,
          writers, stream, cli_acked, cli_resent, cli_returned, cli_ops,
          pid_prev, pid_last,
          rx_1, pool, spawned, subscriptions, retained, in_flight, srv_packet_id,
          outbox, brk_next_pid, brk_sent, brk_done, connected,
          tx_open, handle_packets_result, brk_times, brk_calls, faults_left,
          con_args, con_first, con_result, con_listener, con_stream, con_calls,
          con_returned,
          ui_inc_ids, ui_inc_dup, ui_panicked, api_incidents_len, api_inc_ids, api_inc_dup,
          cod_op, cod_in, cod_out,
          det_sent, inc_rx, inc_tx_open, inc_thread, cam_sent, cam_rx, cam_tx_open,
          cam_thread, pub_attempts, pub_log,
          per_incidents, per_attempts, per_periods>>

(***************************************************************************)
(* Generic helpers on Vec<T>.                                              *)
(***************************************************************************)
\* Set of the elements of a sequence.
Range(s) == {s[i] : i \in 1..Len(s)}

\* Vec::remove(pos): the sequence without its element at index pos.
RemoveAt(s, pos) == [i \in 1..(Len(s) - 1) |-> IF i < pos THEN s[i] ELSE s[i + 1]]

\* iter().position(|x| x == e): the first index holding e, 0 for None.
Position(s, e) ==
    IF e \in Range(s) THEN CHOOSE i \in 1..Len(s) : s[i] = e /\ \A j \in 1..(i - 1) : s[j] # e
    ELSE 0

(***************************************************************************)
(* Camera (apps/sist_camaras/camera.rs).                                   *)
(* Coordinates are integers in units of 1e-7 degrees, the unit in which    *)
(* is_within_range_from_self measures its range.                           *)
(***************************************************************************)
CamIds == 1..MaxCams

\* (latitude, longitude) pairs cameras are created at: (0,0)-(3,4) are at
\* distance exactly 5, (0,0)-(8,0) at distance 8, (3,4)-(8,0) at sqrt(41).
CamPositions == {<<0, 0>>, <<3, 4>>, <<8, 0>>}

\* Ranges cameras are created with.
CamRanges == {4}

\* Incident ids the camera operations are called with.
CamIncIds == {1, 2}

\* Divisor of adjusted_range, in units of 1e-7 degrees it is 1.
const_border_range == 5

\* Camera::new
Camera_new(id, latitude, longitude, range) ==
    [id |-> id, latitude |-> latitude, longitude |-> longitude,
     state |-> "SavingMode", range |-> range, border_cameras |-> <<>>,
     deleted |-> FALSE, incs_being_managed |-> <<>>]

\* Camera::set_state_to
set_state_to(cam, new_state) == [cam EXCEPT !.state = new_state]

\* Camera::is_within_range_from_self: sqrt(dlat^2 + dlon^2) <= range / 1e7
is_within_range_from_self(cam, latitude, longitude, range) ==
    LET lat_dist == cam.latitude - latitude
        long_dist == cam.longitude - longitude
    IN  lat_dist * lat_dist + long_dist * long_dist <= range * range

\* Camera::will_register
will_register(cam, pos) == is_within_range_from_self(cam, pos[1], pos[2], cam.range)

\* Camera::append_to_incs_being_managed
append_to_incs_being_managed(cam, inc_id) ==
    LET pushed == [cam EXCEPT !.incs_being_managed = Append(@, inc_id)]
    IN  IF pushed.state # "Active" THEN set_state_to(pushed, "Active") ELSE pushed

\* Faulty variant: the list is emptied without going back to SavingMode.
remove_from_incs_keeping_state(cam, inc_id) ==
    LET pos == Position(cam.incs_being_managed, inc_id)
    IN  IF pos # 0
        THEN [cam EXCEPT !.incs_being_managed = RemoveAt(@, pos)]
        ELSE cam

\* Faulty variant: a camera that does not manage the incident is sent to
\* SavingMode all the same.
remove_from_incs_resetting_state(cam, inc_id) ==
    LET pos == Position(cam.incs_being_managed, inc_id)
    IN  IF pos # 0
        THEN LET removed == [cam EXCEPT !.incs_being_managed = RemoveAt(@, pos)]
             IN  IF removed.incs_being_managed = <<>>
                 THEN set_state_to(removed, "SavingMode")
                 ELSE removed
        ELSE set_state_to(cam, "SavingMode")

\* Camera::remove_from_incs_being_managed
remove_from_incs_being_managed(cam, inc_id) ==
    LET pos == Position(cam.incs_being_managed, inc_id)
    IN  IF pos # 0
        THEN LET removed == [cam EXCEPT !.incs_being_managed = RemoveAt(@, pos)]
             IN  IF removed.incs_being_managed = <<>>
                 THEN set_state_to(removed, "SavingMode")
                 ELSE removed
        ELSE cam

\* CameraState::to_byte: 0 = SavingMode, 1 = Active.
CameraState_to_byte(state) == IF state = "Active" THEN 1 ELSE 0

\* CameraState::from_byte
CameraState_from_byte(byte) == IF byte = 1 THEN "Active" ELSE "SavingMode"

\* Camera::to_bytes.  An f64 is written as its 8 big-endian bytes, kept here
\* as one element.
to_bytes(cam) ==
    <<cam.id, cam.latitude, cam.longitude, CameraState_to_byte(cam.state), cam.range,
      Len(cam.border_cameras)>>
        \o cam.border_cameras
        \o <<IF cam.deleted THEN 1 ELSE 0>>

\* Camera::from_bytes: the fields are read back in the order to_bytes wrote
\* them; incs_being_managed is not among them and starts empty.
from_bytes(bytes) ==
    LET border_cameras_len == bytes[6]
    IN  [id |-> bytes[1],
         latitude |-> bytes[2],
         longitude |-> bytes[3],
         state |-> CameraState_from_byte(bytes[4]),
         range |-> bytes[5],
         border_cameras |-> SubSeq(bytes, 7, 6 + border_cameras_len),
         deleted |-> (bytes[7 + border_cameras_len] = 1),
         incs_being_managed |-> <<>>]

\* Camera::is_not_deleted
is_not_deleted(cam) == ~cam.deleted

\* Faulty variant: the deletion also drops the incidents being managed.
delete_camera_dropping_incidents(cam) ==
    [cam EXCEPT !.deleted = TRUE, !.incs_being_managed = <<>>]

\* Camera::delete_camera
delete_camera(cam) == [cam EXCEPT !.deleted = TRUE]

\* mutually_add_if_bordering in which only self adds the candidate.
mutually_add_one_way(self, candidate_bordering) ==
    LET in_range == is_within_range_from_self(self, candidate_bordering.latitude,
                                              candidate_bordering.longitude,
                                              const_border_range)
    IN  IF in_range
        THEN <<[self EXCEPT !.border_cameras = Append(@, candidate_bordering.id)],
               candidate_bordering>>
        ELSE <<self, candidate_bordering>>

\* Camera::mutually_add_if_bordering: the pair <<self, candidate>> afterwards.
mutually_add_if_bordering(self, candidate_bordering) ==
    LET in_range == is_within_range_from_self(self, candidate_bordering.latitude,
                                              candidate_bordering.longitude,
                                              const_border_range)
    IN  IF in_range
        THEN <<[self EXCEPT !.border_cameras = Append(@, candidate_bordering.id)],
               [candidate_bordering EXCEPT !.border_cameras = Append(@, self.id)]>>
        ELSE <<self, candidate_bordering>>

\* Camera::remove_from_list_if_bordering: self afterwards (camera_to_delete is
\* only read).
remove_from_list_if_bordering(self, camera_to_delete) ==
    LET pos == Position(self.border_cameras, camera_to_delete.id)
    IN  IF pos # 0
        THEN [self EXCEPT !.border_cameras = RemoveAt(@, pos)]
        ELSE self

(***************************************************************************)
(* Camera actions: one per public operation, applied to the cameras of the *)
(* table.                                                                  *)
(***************************************************************************)
\* Unresolved incidents the camera system receives on Inc.
CamIncidents == [id : CamIncIds, pos : CamPositions]

\* The cameras a set of cameras cascades to: the cameras of their border
\* lists, and so on from those.
RECURSIVE Cascade(_, _, _)
Cascade(cams, frontier, reached) ==
    LET next == {b \in DOMAIN cams :
                    /\ b \notin reached
                    /\ \E a \in frontier : b \in Range(cams[a].border_cameras)}
    IN  IF next = {} THEN reached ELSE Cascade(cams, next, reached \cup next)

\* manage_incident restricted to the cameras in whose range the incident lies.
manage_incident_own_range_only(cams, inc) ==
    [c \in DOMAIN cams |->
        IF is_not_deleted(cams[c]) /\ will_register(cams[c], inc.pos)
        THEN append_to_incs_being_managed(cams[c], inc.id)
        ELSE cams[c]]

\* CamerasLogic::manage_incident for an unresolved incident: every non-deleted
\* camera in whose range the incident lies registers it, and so does every
\* camera the cascade reaches from them, whatever its own range.
manage_incident(cams, inc) ==
    LET in_range == {a \in DOMAIN cams :
                        is_not_deleted(cams[a]) /\ will_register(cams[a], inc.pos)}
        targets == Cascade(cams, in_range, in_range)
    IN  [c \in DOMAIN cams |->
            IF c \in targets THEN append_to_incs_being_managed(cams[c], inc.id) ELSE cams[c]]

CamNoOp == [op |-> "none", cam |-> 0, arg |-> 0, changed |-> FALSE]

CameraInit ==
    /\ cameras = <<>>
    /\ cam_ops = 0
    /\ cam_last = CamNoOp

\* The camera system leaves the other processes alone.
CamFrame == UNCHANGED <<monVars, cliVars, brkVars, conVars, idVars, codVars, pubVars, perVars>>

\* Bookkeeping shared by the camera actions.
CamStep(op, cam, arg) ==
    /\ cam_ops < MaxCamOps
    /\ cam_ops' = cam_ops + 1
    /\ cam_last' = [op |-> op, cam |-> cam, arg |-> arg, changed |-> cameras' # cameras]
    /\ CamFrame

\* Camera::new.  Ids are handed out in ascending order: the operations treat
\* all ids alike.
NewCamera ==
    \E id \in CamIds \ DOMAIN cameras, pos \in CamPositions, range \in CamRanges :
        /\ \A earlier \in 1..(id - 1) : earlier \in DOMAIN cameras
        /\ cameras' = cameras @@ (id :> Camera_new(id, pos[1], pos[2], range))
        /\ UNCHANGED <<cam_ops, cam_last>>
        /\ CamFrame

AppendToIncsBeingManaged ==
    \E id \in DOMAIN cameras, inc_id \in CamIncIds :
        /\ cameras' = [cameras EXCEPT ![id] = append_to_incs_being_managed(@, inc_id)]
        /\ CamStep("append_to_incs_being_managed", id, inc_id)

RemoveFromIncsBeingManaged ==
    \E id \in DOMAIN cameras, inc_id \in CamIncIds :
        /\ cameras' = [cameras EXCEPT ![id] = remove_from_incs_being_managed(@, inc_id)]
        /\ CamStep("remove_from_incs_being_managed", id, inc_id)

MutuallyAddIfBordering ==
    \E a \in DOMAIN cameras, b \in DOMAIN cameras :
        /\ a # b
        /\ LET pair == mutually_add_if_bordering(cameras[a], cameras[b])
           IN  cameras' = [cameras EXCEPT ![a] = pair[1], ![b] = pair[2]]
        /\ CamStep("mutually_add_if_bordering", a, b)

RemoveFromListIfBordering ==
    \E a \in DOMAIN cameras, b \in DOMAIN cameras :
        /\ a # b
        /\ cameras' = [cameras EXCEPT ![a] = remove_from_list_if_bordering(@, cameras[b])]
        /\ CamStep("remove_from_list_if_bordering", a, b)

DeleteCamera ==
    \E id \in DOMAIN cameras :
        /\ cameras' = [cameras EXCEPT ![id] = delete_camera(@)]
        /\ CamStep("delete_camera", id, 0)

\* receive_messages_from_subscribed_topics: an unresolved incident received on
\* Inc is handed to CamerasLogic::manage_incident.
ManageIncident ==
    \E inc \in CamIncidents :
        /\ cameras' = manage_incident(cameras, inc)
        /\ CamStep("manage_incident", 0, inc)

(***************************************************************************)
(* Monitoring station: UISistemaMonitoreo                                  *)
(* (apps/sist_monitoreo/ui_sistema_monitoreo.rs).                          *)
(* The map widgets (places) are display only and are left out; positions,  *)
(* battery and flying info of the payloads are not read by the handlers'   *)
(* bookkeeping and are left out of the payloads.                           *)
(***************************************************************************)
DronIds == 1..MaxDrones

MonIncIds == 1..MaxMonIncs

IncidentSources == {"Manual", "Automated"}

\* DronState values; all but ManagingIncident are handled alike.
DronStates == {"ExpectingToRecvIncident", "ManagingIncident"}

\* IncidentInfo::new
IncidentInfo_new(inc_id, source) == [inc_id |-> inc_id, source |-> source]

IncidentInfos == {IncidentInfo_new(i, src) : i \in MonIncIds, src \in IncidentSources}

\* Option::None of get_inc_id_to_resolve.
NoInc == [inc_id |-> 0, source |-> "None"]

\* Incident::new: a fresh incident is not resolved.
Incident_new(id, source) == [id |-> id, source |-> source, resolved |-> FALSE]

\* Incident::set_resolved
set_resolved(incident) == [incident EXCEPT !.resolved = TRUE]

\* DronCurrentInfo::to_bytes, lines 46-51: of the incident a drone resolves
\* only the id goes on the wire, 0 for none.
inc_id_to_send(resolving) == resolving.inc_id

\* PublishMessages of topic Dron: payload of a DronCurrentInfo; a state byte
\* that is no DronState ("Invalid") makes DronCurrentInfo::from_bytes fail.
\* resolving is the incident the sending drone resolves; inc_id_to_resolve is
\* what the monitor reads back: the id that was sent, under a source the
\* payload does not carry.
DronMsgs ==
    {m \in [topic : {"Dron"}, id : DronIds, state : DronStates,
            inc_id_to_resolve : IncidentInfos \cup {NoInc},
            resolving : IncidentInfos \cup {NoInc}] :
        m.inc_id_to_resolve.inc_id = inc_id_to_send(m.resolving)}
    \cup {[topic |-> "Dron", id |-> 1, state |-> "Invalid", inc_id_to_resolve |-> NoInc,
           resolving |-> NoInc]}

\* PublishMessages of topic Inc: payload of an Incident; "Invalid" stands for
\* bytes Incident::from_bytes rejects.
IncMsgs ==
    [topic : {"Inc"}, id : MonIncIds, source : IncidentSources, resolved : BOOLEAN]
    \cup {[topic |-> "Inc", id |-> 1, source |-> "Invalid", resolved |-> FALSE]}

\* PublishMessages of topic Cam.
CamMsgs == {[topic |-> "Cam"]}

\* DronCurrentInfo::from_bytes returned Ok.
DronFromBytesOk(msg) == msg.state \in DronStates

\* Incident::from_bytes returned Ok.
IncFromBytesOk(msg) == msg.source \in IncidentSources

\* HashMap::insert and HashMap::remove.
MapInsert(hm, k, v) == [x \in (DOMAIN hm) \cup {k} |-> IF x = k THEN v ELSE hm[x]]

MapRemove(hm, k) == [x \in (DOMAIN hm) \ {k} |-> hm[x]]

\* position(|incident| incident.incident_info == inc_info), 0 for None.
PositionOfInfo(itr, inc_info) ==
    IF \E i \in 1..Len(itr) : itr[i].incident_info = inc_info
    THEN CHOOSE i \in 1..Len(itr) : itr[i].incident_info = inc_info
                                    /\ \A j \in 1..(i - 1) : itr[j].incident_info # inc_info
    ELSE 0

\* handle_drone_message, lines 233-259: incidents_to_resolve after a drone in
\* ManagingIncident was recorded for its incident.
RecordManagingDron(itr, dron) ==
    IF dron.state = "ManagingIncident" /\ dron.inc_id_to_resolve # NoInc
    THEN LET index == PositionOfInfo(itr, dron.inc_id_to_resolve)
         IN  IF index # 0
             THEN [itr EXCEPT ![index].drones = Append(@, dron)]
             ELSE Append(itr, [incident_info |-> dron.inc_id_to_resolve,
                               drones |-> <<dron>>])
    ELSE itr

\* handle_drone_message, line 269: the test that lets an entry be resolved.
HasTwoDrones(entry) == Len(entry.drones) = 2

\* handle_drone_message, lines 268-281: the loop over incidents_to_resolve from
\* entry i on; the pair <<hashmap_incidents, publish_incident_tx>> afterwards.
RECURSIVE ResolveLoop(_, _, _, _)
ResolveLoop(itr, i, hm, tx) ==
    IF i > Len(itr)
    THEN <<hm, tx>>
    ELSE LET inc_info == itr[i].incident_info
         IN  IF HasTwoDrones(itr[i]) /\ inc_info \in DOMAIN hm
             THEN ResolveLoop(itr, i + 1, MapRemove(hm, inc_info),
                              Append(tx, set_resolved(hm[inc_info])))
             ELSE ResolveLoop(itr, i + 1, hm, tx)

\* add_incident: the incident is stored under its (id, source).
add_incident(hm, incident) ==
    MapInsert(hm, IncidentInfo_new(incident.id, incident.source), incident)

\* get_next_incident_id
\* last_incident_id is a u8.
U8 == 256

get_next_incident_id(last) == (last + 1) % U8

\* The monitor sent the incident of inc_info for publication as resolved.
SentResolved(inc_info) ==
    \E i \in 1..Len(publish_incident_tx) :
        /\ publish_incident_tx[i].resolved
        /\ IncidentInfo_new(publish_incident_tx[i].id, publish_incident_tx[i].source) = inc_info

\* Messages the broker can hand to the monitor: a drone names a manual incident
\* only once the operator created it (automated ones come from the cameras,
\* on another stream than the drones' messages), and an incident arrives
\* resolved only as the echo of the monitor's own resolved publish.
DeliverableDron(msg) ==
    /\ msg.inc_id_to_resolve.source = "Manual" => msg.inc_id_to_resolve.inc_id <= last_incident_id
    /\ msg.resolving.source = "Manual" => msg.resolving.inc_id <= last_incident_id

DeliverableInc(msg) ==
    /\ msg.source = "Manual" => msg.id <= last_incident_id
    /\ msg.resolved => SentResolved(IncidentInfo_new(msg.id, msg.source))

MonitorInit ==
    /\ incidents_to_resolve = <<>>
    /\ hashmap_incidents = <<>>
    /\ last_incident_id = 0
    /\ publish_incident_tx = <<>>
    /\ mon_added = {}
    /\ mon_msgs = 0
    /\ mon_last = "none"

\* The monitor leaves the other processes alone.
MonFrame == UNCHANGED <<camVars, cliVars, brkVars, conVars, idVars, codVars, pubVars, perVars>>

\* Bookkeeping shared by the monitor actions.
MonStep(topic) ==
    /\ mon_msgs < MaxMonMsgs
    /\ mon_msgs' = mon_msgs + 1
    /\ mon_last' = topic
    /\ MonFrame

\* update(): a PublishMessage of topic Dron was received on publish_message_rx
\* and handed to handle_drone_message.
HandleDroneMessage ==
    \E msg \in DronMsgs :
        /\ DeliverableDron(msg)
        /\ MonStep("Dron")
        /\ IF DronFromBytesOk(msg)
           THEN LET dron == [id |-> msg.id, state |-> msg.state,
                             inc_id_to_resolve |-> msg.inc_id_to_resolve,
                             resolving |-> msg.resolving]
                    itr == RecordManagingDron(incidents_to_resolve, dron)
                    res == ResolveLoop(itr, 1, hashmap_incidents, publish_incident_tx)
                IN  /\ incidents_to_resolve' = itr
                    /\ hashmap_incidents' = res[1]
                    /\ publish_incident_tx' = res[2]
           ELSE UNCHANGED <<incidents_to_resolve, hashmap_incidents, publish_incident_tx>>
        /\ UNCHANGED <<last_incident_id, mon_added>>

\* update(): a PublishMessage of topic Inc was handed to
\* handle_incident_message.
HandleIncidentMessage ==
    \E msg \in IncMsgs :
        /\ DeliverableInc(msg)
        /\ MonStep("Inc")
        /\ IF IncFromBytesOk(msg) /\ msg.source # "Manual"
           THEN LET inc == [id |-> msg.id, source |-> msg.source, resolved |-> msg.resolved]
                IN  /\ hashmap_incidents' = add_incident(hashmap_incidents, inc)
                    /\ mon_added' = mon_added \cup {IncidentInfo_new(inc.id, inc.source)}
           ELSE UNCHANGED <<hashmap_incidents, mon_added>>
        /\ UNCHANGED <<incidents_to_resolve, last_incident_id, publish_incident_tx>>

\* update(): a PublishMessage of topic Cam was handed to
\* handle_camera_message, which only redraws the camera.
HandleCameraMessage ==
    \E msg \in CamMsgs :
        /\ MonStep(msg.topic)
        /\ UNCHANGED <<incidents_to_resolve, hashmap_incidents, last_incident_id,
                       publish_incident_tx, mon_added>>

\* update(): the operator confirmed the "Alta Incidente" dialog.
CreateIncident ==
    /\ last_incident_id < MaxMonIncs
    /\ MonStep("UI")
    /\ LET incident == Incident_new(get_next_incident_id(last_incident_id), "Manual")
       IN  /\ last_incident_id' = incident.id
           /\ hashmap_incidents' = add_incident(hashmap_incidents, incident)
           /\ mon_added' = mon_added \cup {IncidentInfo_new(incident.id, incident.source)}
           /\ publish_incident_tx' = Append(publish_incident_tx, incident)
    /\ UNCHANGED incidents_to_resolve

(***************************************************************************)
(* MQTT client library: MQTTClient (mqtt/client/mqtt_client.rs) and        *)
(* MQTTClientWriter (mqtt/client/mqtt_client_writer.rs).                   *)
(* Payloads are left out of the packets: no client operation reads them.   *)
(***************************************************************************)
HandleIds == 1..MaxHandles

\* Topics the applications publish to.
CliTopics == {"Inc"}

\* Number of values of available_packet_id (u16).
U16 == 65536

\* MQTTClientWriter::new: the counter starts at 0; no wait_for_ack is running.
MQTTClientWriter_new ==
    [available_packet_id |-> 0, waiting |-> 0, panicked |-> FALSE]

\* Faulty variant: the counter is handed out before it is incremented.
generate_packet_id_post_increment(available_packet_id, overflow_checks) ==
    [ok |-> TRUE, available_packet_id |-> (available_packet_id + 1) % U16,
     packet_id |-> available_packet_id]

\* MQTTClientWriter::generate_packet_id: `available_packet_id += 1` on a u16.
\* At 65535 the addition overflows: it panics in a build with overflow checks
\* and wraps to 0 in a build without.
generate_packet_id(available_packet_id, overflow_checks) ==
    IF available_packet_id + 1 < U16
    THEN [ok |-> TRUE, available_packet_id |-> available_packet_id + 1,
          packet_id |-> available_packet_id + 1]
    ELSE IF overflow_checks
         THEN [ok |-> FALSE, available_packet_id |-> available_packet_id, packet_id |-> 0]
         ELSE [ok |-> TRUE, available_packet_id |-> 0, packet_id |-> 0]

\* PublishFlags::new(0, qos, 0) and PublishMessage::new(3, flags, topic,
\* Some(packet_id), payload): DUP and RETAIN are 0.
PublishMessage_new(topic, packet_id, qos) ==
    [type |-> "PUBLISH", dup |-> 0, qos |-> qos, retain |-> 0,
     topic |-> topic, packet_id |-> packet_id]

\* SubscribeMessage::new(packet_id, topics)
SubscribeMessage_new(packet_id, topic, qos) ==
    [type |-> "SUBSCRIBE", dup |-> 0, qos |-> qos, retain |-> 0,
     topic |-> topic, packet_id |-> packet_id]

\* MQTTClientWriter::resend_msg: the bytes written are msg.to_bytes(), the
\* message as mqtt_publish built it.
resend_msg(msg) == msg

\* The handle can be called: it exists, is not inside wait_for_ack, and its
\* thread did not panic.
Callable(h) ==
    /\ h \in DOMAIN writers
    /\ writers[h].waiting = 0
    /\ ~writers[h].panicked

ClientInit ==
    /\ writers = (1 :> MQTTClientWriter_new)
    /\ stream = <<>>
    /\ cli_acked = {}
    /\ cli_resent = {}
    /\ cli_returned = <<>>
    /\ cli_ops = 0
    /\ pid_prev = -1
    /\ pid_last = -1

\* The client leaves the other processes alone.
CliFrame == UNCHANGED <<camVars, monVars, brkVars, conVars, idVars, codVars, pubVars, perVars>>

\* Bookkeeping shared by the client calls.
CliStep ==
    /\ cli_ops < MaxCliOps
    /\ cli_ops' = cli_ops + 1
    /\ UNCHANGED <<pid_prev, pid_last>>
    /\ CliFrame

\* impl Clone for MQTTClient: the clone owns a copy of the writer.
CloneClient ==
    \E h \in DOMAIN writers, c \in HandleIds \ DOMAIN writers :
        /\ Callable(h)
        /\ c = Cardinality(DOMAIN writers) + 1
        /\ writers' = writers @@ (c :> writers[h])
        /\ CliStep
        /\ UNCHANGED <<stream, cli_acked, cli_resent, cli_returned>>

\* MQTTClient::mqtt_publish -> MQTTClientWriter::mqtt_publish.  written is
\* whether write_message_to_stream succeeded.
MqttPublish ==
    \E h \in DOMAIN writers, topic \in CliTopics, qos \in {0, 1},
       written \in BOOLEAN, overflow_checks \in BOOLEAN :
        /\ Callable(h)
        /\ CliStep
        /\ LET gen == generate_packet_id(writers[h].available_packet_id, overflow_checks)
               msg == PublishMessage_new(topic, gen.packet_id, qos)
           IN  IF ~gen.ok
               THEN /\ writers' = [writers EXCEPT ![h].panicked = TRUE]
                    /\ UNCHANGED <<stream, cli_returned>>
               ELSE /\ writers' = [writers EXCEPT
                                     ![h].available_packet_id = gen.available_packet_id]
                    /\ stream' = IF written THEN Append(stream, msg) ELSE stream
                    /\ cli_returned' = Append(cli_returned,
                            [call |-> "mqtt_publish", handle |-> h, ok |-> written,
                             at |-> IF written THEN Len(stream) + 1 ELSE 0])
        /\ UNCHANGED <<cli_acked, cli_resent>>

\* MQTTClient::mqtt_subscribe -> MQTTClientWriter::mqtt_subscribe.
MqttSubscribe ==
    \E h \in DOMAIN writers, topic \in CliTopics, qos \in {0, 1},
       written \in BOOLEAN, overflow_checks \in BOOLEAN :
        /\ Callable(h)
        /\ CliStep
        /\ LET gen == generate_packet_id(writers[h].available_packet_id, overflow_checks)
               msg == SubscribeMessage_new(gen.packet_id, topic, qos)
           IN  IF ~gen.ok
               THEN /\ writers' = [writers EXCEPT ![h].panicked = TRUE]
                    /\ UNCHANGED <<stream, cli_returned>>
               ELSE /\ writers' = [writers EXCEPT
                                     ![h].available_packet_id = gen.available_packet_id]
                    /\ stream' = IF written THEN Append(stream, msg) ELSE stream
                    /\ cli_returned' = Append(cli_returned,
                            [call |-> "mqtt_subscribe", handle |-> h, ok |-> written,
                             at |-> IF written THEN Len(stream) + 1 ELSE 0])
        /\ UNCHANGED <<cli_acked, cli_resent>>

\* The QoS-1 publishes mqtt_publish returned to the caller of handle h.
PublishedBy(h) ==
    {cli_returned[i].at : i \in {j \in 1..Len(cli_returned) :
        /\ cli_returned[j].call = "mqtt_publish"
        /\ cli_returned[j].handle = h
        /\ cli_returned[j].ok
        /\ stream[cli_returned[j].at].qos = 1}}

\* MQTTClientWriter::wait_for_ack(msg), entry: the caller hands in a message
\* mqtt_publish returned; the retransmitter holds it while it waits.
WaitForAckBegin ==
    \E h \in DOMAIN writers :
        \E at \in PublishedBy(h) :
            /\ Callable(h)
            /\ CliStep
            /\ writers' = [writers EXCEPT ![h].waiting = at]
            /\ UNCHANGED <<stream, cli_acked, cli_resent, cli_returned>>

\* MQTTClientWriter::wait_for_ack(msg), return: retransmitter.wait_for_ack
\* gave None (the ack came), Some (the deadline elapsed: resend_msg), or Err.
WaitForAckEnd ==
    \E h \in DOMAIN writers, outcome \in {"None", "Some", "Err"}, written \in BOOLEAN :
        /\ writers[h].waiting # 0
        /\ outcome = "None" => writers[h].waiting \in cli_acked
        /\ outcome = "Some" => writers[h].waiting \notin cli_acked
        /\ outcome # "Some" => written
        /\ writers' = [writers EXCEPT ![h].waiting = 0]
        /\ IF outcome = "Some" /\ written
           THEN /\ stream' = Append(stream, resend_msg(stream[writers[h].waiting]))
                /\ cli_resent' = cli_resent \cup {Len(stream) + 1}
           ELSE UNCHANGED <<stream, cli_resent>>
        /\ cli_returned' = Append(cli_returned,
                [call |-> "wait_for_ack", handle |-> h,
                 ok |-> (outcome # "Err" /\ written), at |-> writers[h].waiting])
        /\ UNCHANGED <<cli_acked, cli_ops, pid_prev, pid_last>>
        /\ CliFrame

\* The listener received the broker's PUBACK for a QoS-1 publish of stream.
PubackArrives ==
    \E at \in 1..Len(stream) :
        /\ stream[at].type = "PUBLISH"
        /\ stream[at].qos = 1
        /\ at \notin cli_resent
        /\ at \notin cli_acked
        /\ cli_acked' = cli_acked \cup {at}
        /\ UNCHANGED <<writers, stream, cli_resent, cli_returned, cli_ops,
                       pid_prev, pid_last>>
        /\ CliFrame

\* generate_packet_id called once more on the connected client's writer, by
\* mqtt_publish or mqtt_subscribe alike; only the counter is followed.
MintPacketId ==
    \E overflow_checks \in BOOLEAN :
        /\ ~writers[1].panicked
        /\ LET gen == generate_packet_id(writers[1].available_packet_id, overflow_checks)
           IN  IF ~gen.ok
               THEN /\ writers' = [writers EXCEPT ![1].panicked = TRUE]
                    /\ UNCHANGED <<pid_prev, pid_last>>
               ELSE /\ writers' = [writers EXCEPT
                                     ![1].available_packet_id = gen.available_packet_id]
                    /\ pid_prev' = pid_last
                    /\ pid_last' = gen.packet_id
        /\ UNCHANGED <<stream, cli_acked, cli_resent, cli_returned, cli_ops>>
        /\ CliFrame

(***************************************************************************)
(* Broker: MessageProcessor (mqtt/server/message_processor.rs) over the    *)
(* MQTTServer it calls.  process_packet is one step: the handlers hold the *)
(* server's locks while they work.  Payloads are left out; a packet's n,   *)
(* its place in the order of arrival on rx_1, stands for its content.      *)
(***************************************************************************)
BrkClients == {"c1", "c2"}

BrkTopics == {"Inc"}

\* Highest QoS the broker grants.
BrokerMaxQos == 1

Min(a, b) == IF a < b THEN a ELSE b

\* Packets a client can send next: a PUBLISH or SUBSCRIBE with its next packet
\* id, the retransmission (DUP = 1) of a QoS-1 PUBLISH it sent before, a PUBACK
\* for a QoS-1 PUBLISH the broker wrote to it, a packet of a type the processor
\* does not handle, or bytes of one of these types that do not decode.  The
\* last two change nothing whoever sends them: one client sends them.
ClientPackets(c) ==
    LET pid == brk_next_pid[c] + 1
        base == [n |-> brk_sent + 1, client |-> c, dup |-> 0, decodes |-> TRUE]
        fresh == {base @@ [type |-> t, topic |-> topic, qos |-> qos, packet_id |-> pid] :
                    t \in {"Publish", "Subscribe"}, topic \in BrkTopics, qos \in {0, 1}}
        earlier == {p \in brk_done \cup spawned \cup Range(rx_1) :
                        p.type = "Publish" /\ p.client = c /\ p.qos = 1 /\ p.decodes}
        again == {[p EXCEPT !.n = brk_sent + 1, !.dup = 1] : p \in earlier}
        acks == {base @@ [type |-> "Puback", topic |-> "", qos |-> 0,
                          packet_id |-> m.packet_id] :
                    m \in {x \in Range(outbox[c]) : x.type = "PUBLISH" /\ x.qos = 1}}
        other == {base @@ [type |-> "Pingreq", topic |-> "", qos |-> 0, packet_id |-> 0]}
        broken == {[base EXCEPT !.decodes = FALSE]
                        @@ [type |-> t, topic |-> "", qos |-> 0, packet_id |-> 0] :
                    t \in {"Publish", "Subscribe", "Puback"}}
    IN  fresh \cup again \cup acks \cup (IF c = "c1" THEN other \cup broken ELSE {})

\* MQTTServer::send_puback_to: a QoS-1 publish is answered with a PUBACK of the
\* same packet id; the outbox of the publisher afterwards.
send_puback_to(box, publish_msg) ==
    IF publish_msg.qos = 1
    THEN Append(box, [type |-> "PUBACK", packet_id |-> publish_msg.packet_id])
    ELSE box

\* MQTTServer::send_suback_to: the outbox of the subscriber afterwards.
send_suback_to(box, return_codes, packet_id) ==
    Append(box, [type |-> "SUBACK", packet_id |-> packet_id, return_codes |-> return_codes])

\* The publish the broker writes to subscriber sub for message msg: the QoS is
\* downgraded to the subscription's and the packet id is a fresh one of sub.
\* origin and cause are history: the PUBLISH it copies and the packet whose
\* handling wrote it (that PUBLISH, or the SUBSCRIBE it seeds).
Delivery(msg, sub, sub_qos, server_pid, cause) ==
    [type |-> "PUBLISH", topic |-> msg.topic, qos |-> Min(msg.qos, sub_qos),
     packet_id |-> server_pid, dup |-> 0, publisher |-> msg.client, origin |-> msg.n,
     cause |-> cause]

\* Subscribers of a topic.
SubscribersOf(subs, topic) == {c \in BrkClients : topic \in DOMAIN subs[c]}

\* MessageProcessor::handle_puback: the PUBACK is decoded and logged; the
\* in-flight table afterwards.
handle_puback(table, packet) == table

\* SUBACK return code for a filter that was not granted.
SubackFailure == 128

\* One call a handler made into the MQTTServer while handling packet n: its
\* place k among the handler's calls, the packet id it carried and its result.
ServerCall(packet, k, call, ok) ==
    [n |-> packet.n, k |-> k, call |-> call, packet_id |-> packet.packet_id, ok |-> ok]

\* What the calls into the MQTTServer return while one packet is handled:
\* each call that writes to a client or changes a session returns Ok or Err.
ServerResults(packet) ==
    LET faults(io) == Cardinality({f \in DOMAIN io : ~io[f]})
        all == [puback : BOOLEAN, add_topics : BOOLEAN, preexisting : BOOLEAN,
                suback : BOOLEAN]
        may_fail == CASE packet.type = "Publish" /\ packet.decodes ->
                            IF packet.qos = 1 THEN {"puback"} ELSE {}
                      [] packet.type = "Subscribe" /\ packet.decodes ->
                            {"add_topics", "suback"} \cup
                            (IF packet.topic \in DOMAIN retained THEN {"preexisting"} ELSE {})
                      [] OTHER -> {}
    IN  {io \in all : /\ \A f \in DOMAIN io : ~io[f] => f \in may_fail
                      /\ faults(io) <= faults_left}

\* Faulty variant of handle_publish: handle_publish_message is left out when
\* send_puback_to returned Err.
fans_out_only_after_puback(puback_ok) == puback_ok

\* MessageProcessor::handle_publish: the Err of send_puback_to is printed and
\* handle_publish_message is called whatever it was.
fans_out(puback_ok) == TRUE

\* Faulty variant of handle_subscribe: no SUBACK when an earlier call failed.
sends_suback_only_after_ok(add_topics_ok, preexisting_ok) == add_topics_ok /\ preexisting_ok

\* MessageProcessor::handle_subscribe: send_suback_to is called whatever
\* add_topics_to_subscriber and send_preexisting_msgs_to_new_subscriber returned.
sends_suback(add_topics_ok, preexisting_ok) == TRUE

\* MessageProcessor::process_packet / handle_publish, handle_subscribe,
\* handle_puback: the broker's state after the packet was handled, io being
\* what the server's calls returned.  A packet that does not decode, or of
\* another type, is logged and nothing else: the handlers call nothing that
\* touches the connection.
ProcessPacket(packet, io) ==
    /\ faults_left' = faults_left - Cardinality({f \in DOMAIN io : ~io[f]})
    /\ brk_done' = brk_done \cup {packet}
    /\ brk_times' = IF packet.n \in DOMAIN brk_times
                    THEN [brk_times EXCEPT ![packet.n] = @ + 1]
                    ELSE MapInsert(brk_times, packet.n, 1)
    /\ connected' = connected
    /\ CASE packet.type = "Publish" /\ packet.decodes ->
              LET fanned == fans_out(io.puback)
                  subs == IF fanned THEN SubscribersOf(subscriptions, packet.topic) ELSE {}
                  acked == [outbox EXCEPT ![packet.client] =
                                IF io.puback THEN send_puback_to(@, packet) ELSE @]
              IN  /\ retained' = IF fanned THEN MapInsert(retained, packet.topic, packet)
                                 ELSE retained
                  /\ srv_packet_id' = [c \in BrkClients |->
                        IF c \in subs THEN srv_packet_id[c] + 1 ELSE srv_packet_id[c]]
                  /\ outbox' = [c \in BrkClients |->
                        IF c \in subs
                        THEN Append(acked[c], Delivery(packet, c, subscriptions[c][packet.topic],
                                                       srv_packet_id[c] + 1, packet.n))
                        ELSE acked[c]]
                  /\ in_flight' = [c \in BrkClients |->
                        IF c \in subs /\ Min(packet.qos, subscriptions[c][packet.topic]) = 1
                        THEN in_flight[c] \cup {<<packet.topic, srv_packet_id[c] + 1>>}
                        ELSE in_flight[c]]
                  /\ brk_calls' = brk_calls
                        \cup {ServerCall(packet, 1, "send_puback_to", io.puback)}
                        \cup (IF fanned
                              THEN {ServerCall(packet, 2, "handle_publish_message", TRUE)}
                              ELSE {})
                  /\ UNCHANGED subscriptions
         [] packet.type = "Subscribe" /\ packet.decodes ->
              LET c == packet.client
                  granted == Min(packet.qos, BrokerMaxQos)
                  return_codes == IF io.add_topics THEN <<granted>> ELSE <<SubackFailure>>
                  seeded == packet.topic \in DOMAIN retained /\ io.preexisting
                  pid == srv_packet_id[c] + 1
                  seed == IF seeded
                          THEN <<Delivery(retained[packet.topic], c, granted, pid, packet.n)>>
                          ELSE <<>>
                  answered == sends_suback(io.add_topics, io.preexisting)
              IN  /\ subscriptions' = IF io.add_topics
                                      THEN [subscriptions EXCEPT
                                                ![c] = MapInsert(@, packet.topic, granted)]
                                      ELSE subscriptions
                  /\ srv_packet_id' = [srv_packet_id EXCEPT ![c] = IF seeded THEN pid ELSE @]
                  /\ outbox' = [outbox EXCEPT
                        ![c] = IF answered /\ io.suback
                               THEN send_suback_to(@ \o seed, return_codes, packet.packet_id)
                               ELSE @ \o seed]
                  /\ in_flight' = [in_flight EXCEPT
                        ![c] = IF seeded /\ seed[1].qos = 1
                               THEN @ \cup {<<packet.topic, pid>>} ELSE @]
                  /\ brk_calls' = brk_calls
                        \cup {ServerCall(packet, 1, "add_topics_to_subscriber", io.add_topics),
                              ServerCall(packet, 2, "send_preexisting_msgs_to_new_subscriber",
                                         io.preexisting)}
                        \cup (IF answered
                              THEN {ServerCall(packet, 3, "send_suback_to", io.suback)}
                              ELSE {})
                  /\ UNCHANGED retained
         [] packet.type = "Puback" /\ packet.decodes ->
              /\ in_flight' = [in_flight EXCEPT ![packet.client] = handle_puback(@, packet)]
              /\ UNCHANGED <<subscriptions, retained, srv_packet_id, outbox, brk_calls>>
         [] OTHER ->
              UNCHANGED <<subscriptions, retained, in_flight, srv_packet_id, outbox, brk_calls>>

\* Faulty variant: the iteration ends as soon as the channel is empty.
iteration_ends_when_empty(rx, open) == rx = <<>>

\* Receiver<Packet> as an iterator: next() is None once the channel is empty
\* and every Sender is dropped.
iteration_ends(rx, open) == rx = <<>> /\ ~open

BrokerInitWith(online, faults) ==
    /\ rx_1 = <<>>
    /\ pool = "none"
    /\ spawned = {}
    /\ subscriptions = [c \in BrkClients |-> <<>>]
    /\ retained = <<>>
    /\ in_flight = [c \in BrkClients |-> {}]
    /\ srv_packet_id = [c \in BrkClients |-> 0]
    /\ outbox = [c \in BrkClients |-> <<>>]
    /\ brk_next_pid = [c \in BrkClients |-> 0]
    /\ brk_sent = 0
    /\ brk_done = {}
    /\ connected = [c \in BrkClients |-> c \in online]
    /\ tx_open = TRUE
    /\ handle_packets_result = "none"
    /\ brk_times = <<>>
    /\ brk_calls = {}
    /\ faults_left = faults

\* Every client of BrkClients is connected.
BrokerInit == BrokerInitWith(BrkClients, MaxFaults)

\* The broker leaves the other processes alone.
BrkFrame == UNCHANGED <<camVars, monVars, cliVars, conVars, idVars, codVars, pubVars, perVars>>

\* A connection's reader decoded the fixed header of a packet of its client
\* and sent the packet on the channel.  handle_packets is running and has
\* emptied the channel: the order in which packets are handled is the pool's
\* to choose, not the channel's.  The clients are interchangeable, so the
\* first packet is c1's.
ClientSends ==
    \E c \in BrkClients :
        \E packet \in ClientPackets(c) :
            /\ brk_sent < MaxPackets
            /\ connected[c]
            /\ tx_open
            /\ pool # "none"
            /\ rx_1 = <<>>
            /\ brk_sent = 0 => c = "c1"
            /\ brk_sent' = brk_sent + 1
            /\ rx_1' = Append(rx_1, packet)
            /\ brk_next_pid' = [brk_next_pid EXCEPT
                    ![c] = IF packet.type \in {"Publish", "Subscribe"} /\ packet.dup = 0
                                /\ packet.decodes
                           THEN packet.packet_id ELSE @]
            /\ UNCHANGED <<pool, spawned, subscriptions, retained, in_flight,
                           srv_packet_id, outbox, brk_done, connected>>
            /\ UNCHANGED <<tx_open, handle_packets_result, brk_times, brk_calls, faults_left>>
            /\ BrkFrame

\* handle_packets: create_thread_pool_with(20) gave a pool or failed.
CreateThreadPool ==
    /\ pool = "none"
    /\ pool' \in {"ok", "failed"}
    /\ UNCHANGED <<rx_1, spawned, subscriptions, retained, in_flight, srv_packet_id,
                   outbox, brk_next_pid, brk_sent, brk_done, connected>>
    /\ UNCHANGED <<tx_open, handle_packets_result, brk_times, brk_calls, faults_left>>
    /\ BrkFrame

\* handle_packets, with the pool: the next packet of the channel is moved into
\* a closure spawned on the pool.
SpawnOnPool ==
    /\ pool = "ok"
    /\ handle_packets_result = "none"
    /\ rx_1 # <<>>
    /\ spawned' = spawned \cup {Head(rx_1)}
    /\ rx_1' = Tail(rx_1)
    /\ UNCHANGED <<pool, subscriptions, retained, in_flight, srv_packet_id, outbox,
                   brk_next_pid, brk_sent, brk_done, connected>>
    /\ UNCHANGED <<tx_open, handle_packets_result, brk_times, brk_calls, faults_left>>
    /\ BrkFrame

\* A pool thread runs one of the spawned closures: process_packet(packet).
RunOnPool ==
    \E packet \in spawned :
        /\ spawned' = spawned \ {packet}
        /\ \E io \in ServerResults(packet) : ProcessPacket(packet, io)
        /\ UNCHANGED <<rx_1, pool, brk_next_pid, brk_sent, tx_open, handle_packets_result>>
        /\ BrkFrame

\* handle_packets, without pool: the calling thread handles the next packet of
\* the channel itself.
ProcessInline ==
    /\ pool = "failed"
    /\ handle_packets_result = "none"
    /\ rx_1 # <<>>
    /\ rx_1' = Tail(rx_1)
    /\ \E io \in ServerResults(Head(rx_1)) : ProcessPacket(Head(rx_1), io)
    /\ UNCHANGED <<pool, spawned, brk_next_pid, brk_sent, tx_open, handle_packets_result>>
    /\ BrkFrame

\* Every connection's reader ended and dropped its clone of the Sender.
SendersDropped ==
    /\ tx_open
    /\ tx_open' = FALSE
    /\ UNCHANGED <<rx_1, pool, spawned, subscriptions, retained, in_flight, srv_packet_id>>
    /\ UNCHANGED <<outbox, brk_next_pid, brk_sent, brk_done, connected>>
    /\ UNCHANGED <<handle_packets_result, brk_times, brk_calls, faults_left>>
    /\ BrkFrame

\* handle_packets: `for packet in rx_1` ended, in either arm, and Ok(()) is
\* returned.  Closures spawned on the pool may still be waiting to run.
HandlePacketsReturns ==
    /\ pool # "none"
    /\ handle_packets_result = "none"
    /\ iteration_ends(rx_1, tx_open)
    /\ handle_packets_result' = "Ok"
    /\ UNCHANGED <<rx_1, pool, spawned, subscriptions, retained, in_flight, srv_packet_id>>
    /\ UNCHANGED <<outbox, brk_next_pid, brk_sent, brk_done, connected>>
    /\ UNCHANGED <<tx_open, brk_times, brk_calls, faults_left>>
    /\ BrkFrame

(***************************************************************************)
(* One client connection, from mqtt_connect_to_broker to mqtt_disconnect   *)
(* (mqtt/client/mqtt_client_server_connection.rs, mqtt_client.rs,          *)
(* mqtt_client_writer.rs).  What the socket and the broker answer is the   *)
(* environment's choice.                                                   *)
(***************************************************************************)
\* AppsMqttTopics.
WillTopics == {"desc", "Inc", "Dron"}

\* WillContent(app_type, id).
WillContents == [app : {"Monitoreo", "Cameras", "Dron"}, id : {0, 5}]

WillQos == {0, 1}

\* Arguments of a call of mqtt_connect_to_broker; the monitor's are
\* ("Sistema-Monitoreo", WillContent(Monitoreo, 0), desc, 1).
ConnectArgs ==
    [client_id : {"Sistema-Monitoreo"}, will_msg_content : WillContents,
     will_topic : WillTopics, will_qos : WillQos]

PacketTypes == {"Connack", "Publish", "Suback", "Puback"}

ConnectReturnCodes ==
    {"ConnectionAccepted", "UnacceptableProtocolVersion", "IdentifierRejected",
     "ServerUnavailable", "BadUsernameOrPassword", "NotAuthorized"}

\* What the client finds on the socket after sending CONNECT: whether the
\* fixed header could be read, the packet type it announces, whether the rest
\* could be read, whether it decodes as a CONNACK, and the return code.
FirstReads ==
    [header_ok : BOOLEAN, type : PacketTypes, body_ok : BOOLEAN, decodes : BOOLEAN,
     code : ConnectReturnCodes]

\* The payload of a will: the AppType byte and the one-byte id.
WillContent_to_bytes(will_content) ==
    <<CASE will_content.app = "Cameras" -> 1
        [] will_content.app = "Dron" -> 2
        [] will_content.app = "Monitoreo" -> 3,
      will_content.id>>

\* The bytes of the string "dron-5".
Utf8Dron5 == <<100, 114, 111, 110, 45, 53>>

\* ConnectMessage::new(client_id, will_topic, will_message, username, password, will_qos).
ConnectMessage_new(client_id, will_topic, will_message, username, password, will_qos) ==
    [type |-> "CONNECT", client_id |-> client_id, will_topic |-> will_topic,
     will_message |-> will_message, username |-> username, password |-> password,
     will_qos |-> will_qos]

\* read_connack without the test of the return code.
read_connack_any_return_code(first) ==
    first.header_ok /\ first.type = "Connack" /\ first.body_ok /\ first.decodes

\* read_connack: TRUE for Ok(()).
read_connack(first) ==
    IF ~first.header_ok THEN FALSE
    ELSE IF first.type = "Connack"
         THEN IF ~first.body_ok \/ ~first.decodes THEN FALSE
              ELSE first.code = "ConnectionAccepted"
         ELSE FALSE

\* mqtt_connect_to_broker of mqtt_client_server_connection.rs: whether it
\* returns Ok(stream), the socket calls it made and what it read.
connect_to_broker(args, tcp_ok, write_ok, first) ==
    LET connect_msg == ConnectMessage_new(args.client_id, args.will_topic, Utf8Dron5,
                                          "usuario0", "rustx123", args.will_qos)
        write == [op |-> "write", packet |-> connect_msg, ok |-> write_ok]
    IN  IF ~tcp_ok THEN [ok |-> FALSE, calls |-> <<>>, first |-> <<>>, stream |-> "none"]
        ELSE IF ~write_ok
             THEN [ok |-> FALSE, calls |-> <<write>>, first |-> <<>>, stream |-> "dropped"]
             ELSE [ok |-> read_connack(first), calls |-> <<write>>, first |-> <<first>>,
                   stream |-> IF read_connack(first) THEN "open" ELSE "dropped"]

\* mqtt_disconnect shutting the socket down whatever the write returned.
mqtt_disconnect_shutdown_always(write_ok, shutdown_ok) ==
    [ok |-> write_ok /\ shutdown_ok,
     calls |-> <<[op |-> "write", packet |-> [type |-> "DISCONNECT"], ok |-> write_ok],
                 [op |-> "shutdown", packet |-> [type |-> "Both"], ok |-> shutdown_ok]>>]

\* MQTTClientWriter::mqtt_disconnect: whether it returns Ok(()) and the socket
\* calls it made.
mqtt_disconnect(write_ok, shutdown_ok) ==
    LET write == [op |-> "write", packet |-> [type |-> "DISCONNECT"], ok |-> write_ok]
        shutdown == [op |-> "shutdown", packet |-> [type |-> "Both"], ok |-> shutdown_ok]
    IN  IF ~write_ok THEN [ok |-> FALSE, calls |-> <<write>>]
        ELSE [ok |-> shutdown_ok, calls |-> <<write, shutdown>>]

ConnectionInit ==
    /\ con_args = "none"
    /\ con_first = <<>>
    /\ con_result = "none"
    /\ con_listener = FALSE
    /\ con_stream = "none"
    /\ con_calls = <<>>
    /\ con_returned = <<>>

\* The connection leaves the other processes alone.
ConFrame == UNCHANGED <<camVars, monVars, cliVars, brkVars, idVars, codVars, pubVars, perVars>>

\* MQTTClient::mqtt_connect_to_broker: connect, then clone the stream for the
\* writer and for the listener, then spawn the listener thread.
MqttConnectToBroker ==
    /\ con_result = "none"
    /\ \E args \in ConnectArgs, first \in FirstReads :
        \E tcp_ok \in BOOLEAN, write_ok \in BOOLEAN, clone_writer_ok \in BOOLEAN,
           clone_listener_ok \in BOOLEAN :
            LET res == connect_to_broker(args, tcp_ok, write_ok, first)
                ok == res.ok /\ clone_writer_ok /\ clone_listener_ok
            IN  /\ con_args' = args
                /\ con_first' = res.first
                /\ con_calls' = res.calls
                /\ con_result' = IF ok THEN "Ok" ELSE "Err"
                /\ con_listener' = ok
                /\ con_stream' = IF res.ok /\ ~ok THEN "dropped" ELSE res.stream
    /\ UNCHANGED con_returned
    /\ ConFrame

\* MQTTClient::mqtt_disconnect on the connected client.  A write on a socket
\* shut down in both directions fails.
MqttDisconnect ==
    /\ con_result = "Ok"
    /\ Len(con_returned) < MaxDisconnects
    /\ \E write_ok \in BOOLEAN, shutdown_ok \in BOOLEAN :
        LET res == mqtt_disconnect(write_ok, shutdown_ok)
        IN  /\ con_stream = "shutdown" => ~write_ok
            /\ con_calls' = con_calls \o res.calls
            /\ con_returned' = Append(con_returned,
                    [ok |-> res.ok, from |-> Len(con_calls) + 1, to |-> Len(con_calls')])
            /\ con_stream' = IF write_ok /\ shutdown_ok THEN "shutdown" ELSE con_stream
            /\ UNCHANGED <<con_args, con_first, con_result, con_listener>>
            /\ ConFrame

(***************************************************************************)
(* Incident ids of operator-created incidents: get_next_incident_id of the *)
(* map UI (apps/sist_monitoreo/ui_sistema_monitoreo.rs) and                *)
(* generate_new_incident_id of SistemaMonitoreo                            *)
(* (apps/api_sistema_monitoreo.rs), run until their 8-bit arithmetic       *)
(* overflows.                                                              *)
(***************************************************************************)
\* generate_new_incident_id: (incidents.len() + 1) as u8.
generate_new_incident_id(len) == (len + 1) % U8

IncidentIdInit ==
    /\ ui_inc_ids = {}
    /\ ui_inc_dup = FALSE
    /\ ui_panicked = FALSE
    /\ api_incidents_len = 0
    /\ api_inc_ids = {}
    /\ api_inc_dup = FALSE

IdFrame == UNCHANGED <<camVars, cliVars, brkVars, conVars, codVars, pubVars, perVars>>

\* The operator confirmed the dialog of the map UI: get_next_incident_id.
\* last_incident_id += 1 on 255 panics in a build with overflow checks and
\* wraps to 0 in a build without them.
GetNextIncidentId ==
    /\ ~ui_panicked
    /\ \E overflow_checks \in BOOLEAN :
        IF last_incident_id + 1 >= U8 /\ overflow_checks
        THEN /\ ui_panicked' = TRUE
             /\ UNCHANGED <<last_incident_id, ui_inc_ids, ui_inc_dup>>
        ELSE LET id == get_next_incident_id(last_incident_id)
             IN  /\ last_incident_id' = id
                 /\ ui_inc_dup' = (id \in ui_inc_ids)
                 /\ ui_inc_ids' = ui_inc_ids \cup {id}
                 /\ UNCHANGED ui_panicked
    /\ UNCHANGED <<incidents_to_resolve, hashmap_incidents, publish_incident_tx,
                   mon_added, mon_msgs, mon_last>>
    /\ UNCHANGED <<api_incidents_len, api_inc_ids, api_inc_dup>>
    /\ IdFrame

\* The operator confirmed the dialog of the gtk UI: generate_new_incident_id,
\* then add_incident pushes the incident.
GenerateNewIncidentId ==
    /\ api_incidents_len < MaxApiIncidents
    /\ LET id == generate_new_incident_id(api_incidents_len)
       IN  /\ api_inc_dup' = (id \in api_inc_ids)
           /\ api_inc_ids' = api_inc_ids \cup {id}
    /\ api_incidents_len' = api_incidents_len + 1
    /\ UNCHANGED <<ui_inc_ids, ui_inc_dup, ui_panicked>>
    /\ UNCHANGED monVars
    /\ IdFrame

(***************************************************************************)
(* Wire codecs and constructors, called on their own.                      *)
(***************************************************************************)
CodecInit ==
    /\ cod_op = "none"
    /\ cod_in = <<>>
    /\ cod_out = <<>>

CodFrame == UNCHANGED <<camVars, monVars, cliVars, brkVars, conVars, idVars, pubVars, perVars>>

\* Option<T> and Result<T, Error>.
None == <<>>

Some(x) == <<x>>

Ok(value) == [ok |-> TRUE, value |-> value]

Err(kind) == [ok |-> FALSE, error |-> kind]

\* All values of a u8.
U8Values == 0..(U8 - 1)

\* Ids and battery levels the codec calls are made with.
U8Samples == {0, 1, 100, 255}

(***************************************************************************)
(* DronCurrentInfo (apps/sist_dron/dron_current_info.rs) and Dron          *)
(* (apps/dron.rs).  An f64 is written as its 8 big-endian bytes, kept as   *)
(* one element.                                                            *)
(***************************************************************************)
\* DronState, in the order of its state byte.
AllDronStates ==
    <<"ExpectingToRecvIncident", "RespondingToIncident", "ManagingIncident",
      "ReturningToBase", "Mantainance">>

\* DronState::to_byte
DronState_to_byte(state) == CHOOSE b \in 1..Len(AllDronStates) : AllDronStates[b] = state

\* DronState::from_byte
DronState_from_byte(byte) ==
    IF byte \in 1..Len(AllDronStates) THEN Ok(AllDronStates[byte]) ELSE Err("InvalidInput")

\* DronFlyingInfo::to_bytes: direction, then the speed as a big-endian u16.
DronFlyingInfo_to_bytes(f) == <<f.dir_lat, f.dir_lon, f.speed \div U8, f.speed % U8>>

\* DronFlyingInfo::from_bytes
DronFlyingInfo_from_bytes(bytes) ==
    IF Len(bytes) < 4
    THEN Err("InvalidInput")
    ELSE Ok([dir_lat |-> bytes[1], dir_lon |-> bytes[2], speed |-> bytes[3] * U8 + bytes[4]])

\* DronCurrentInfo::new
DronCurrentInfo_new(id, latitude, longitude, battery_lvl, state) ==
    [id |-> id, latitude |-> latitude, longitude |-> longitude,
     battery_lvl |-> battery_lvl, state |-> state,
     inc_id_to_resolve |-> None, flying_info |-> None]

\* to_bytes that always writes 0 as the incident id.
DronCurrentInfo_to_bytes_without_inc_id(d) ==
    <<d.id, d.latitude, d.longitude, d.battery_lvl, DronState_to_byte(d.state), 0>>
        \o (IF d.flying_info # None
            THEN <<1>> \o DronFlyingInfo_to_bytes(d.flying_info[1])
            ELSE <<0>>)

\* DronCurrentInfo::to_bytes
DronCurrentInfo_to_bytes(d) ==
    <<d.id, d.latitude, d.longitude, d.battery_lvl, DronState_to_byte(d.state),
      IF d.inc_id_to_resolve # None THEN d.inc_id_to_resolve[1] ELSE 0>>
        \o (IF d.flying_info # None
            THEN <<1>> \o DronFlyingInfo_to_bytes(d.flying_info[1])
            ELSE <<0>>)

\* DronCurrentInfo::from_bytes
DronCurrentInfo_from_bytes(bytes) ==
    LET state_res == DronState_from_byte(bytes[5])
        read_inc_id == bytes[6]
        inc_id_to_resolve == IF read_inc_id # 0 THEN Some(read_inc_id) ELSE None
        is_there_flying_info == bytes[7]
        flying_res == IF is_there_flying_info = 1
                      THEN DronFlyingInfo_from_bytes(SubSeq(bytes, 8, Len(bytes)))
                      ELSE Ok(None)
    IN  IF ~flying_res.ok
        THEN flying_res
        ELSE IF state_res.ok
             THEN Ok([id |-> bytes[1], latitude |-> bytes[2], longitude |-> bytes[3],
                      battery_lvl |-> bytes[4], state |-> state_res.value,
                      inc_id_to_resolve |-> inc_id_to_resolve,
                      flying_info |-> IF is_there_flying_info = 1
                                      THEN Some(flying_res.value) ELSE None])
             ELSE Err("InvalidInput")

\* DronCurrentInfo::get_battery_lvl
get_battery_lvl(d) == d.id

\* SistDronProperties::new: the constants read from the properties file, or
\* the error of reading it.
SistDronProperties_new ==
    {Err("properties")}
        \cup {Ok([range_center_lat |-> lat, range_center_lon |-> lon]) :
                lat \in {-34, 0}, lon \in {-58}}

\* SistDronProperties::get_range_center_position
get_range_center_position(dron_properties) ==
    <<dron_properties.range_center_lat, dron_properties.range_center_lon>>

\* Dron::new that starts the drone with an empty battery.
Dron_new_with_empty_battery(id, properties_res) ==
    IF ~properties_res.ok
    THEN properties_res
    ELSE LET range_center == get_range_center_position(properties_res.value)
         IN  Ok([current_info |->
                    DronCurrentInfo_new(id, range_center[1], range_center[2], 0,
                                        "ExpectingToRecvIncident"),
                 dron_properties |-> properties_res.value])

\* Dron::new; properties_res is the result of SistDronProperties::new.
Dron_new(id, properties_res) ==
    IF ~properties_res.ok
    THEN properties_res
    ELSE LET range_center == get_range_center_position(properties_res.value)
         IN  Ok([current_info |->
                    DronCurrentInfo_new(id, range_center[1], range_center[2], 100,
                                        "ExpectingToRecvIncident"),
                 dron_properties |-> properties_res.value])

\* Positions and flying infos the codec calls are made with.
DronPositions == {<<-34, -58>>}

DronFlyingInfos == [dir_lat : {1}, dir_lon : {0}, speed : {0, 300}]

\* Every DronCurrentInfo over the sampled fields, with every incident id.
DronCurrentInfos ==
    {[DronCurrentInfo_new(id, pos[1], pos[2], battery_lvl, AllDronStates[st])
        EXCEPT !.inc_id_to_resolve = inc, !.flying_info = fly] :
        id \in {1, 255}, pos \in DronPositions, battery_lvl \in {100},
        st \in 1..Len(AllDronStates),
        inc \in {None} \cup {Some(i) : i \in U8Values},
        fly \in {None} \cup {Some(f) : f \in DronFlyingInfos}}

\* A DronCurrentInfo is encoded and decoded again.
DronRoundTrip ==
    /\ cod_op = "none"
    /\ \E d \in DronCurrentInfos :
        /\ cod_op' = "DronCurrentInfo"
        /\ cod_in' = d
        /\ cod_out' = DronCurrentInfo_from_bytes(DronCurrentInfo_to_bytes(d))
        /\ CodFrame

\* Dron::new is called.
DronNew ==
    /\ cod_op = "none"
    /\ \E dron_id \in U8Samples, properties_res \in SistDronProperties_new :
        /\ cod_op' = "Dron_new"
        /\ cod_in' = [id |-> dron_id, properties_res |-> properties_res]
        /\ cod_out' = Dron_new(dron_id, properties_res)
        /\ CodFrame

\* get_battery_lvl is called on a drone.
GetBatteryLvl ==
    /\ cod_op = "none"
    /\ \E dron_id \in U8Samples, battery \in U8Samples :
        /\ cod_op' = "get_battery_lvl"
        /\ cod_in' = DronCurrentInfo_new(dron_id, 0, 0, battery, "ExpectingToRecvIncident")
        /\ cod_out' = get_battery_lvl(cod_in')
        /\ CodFrame

(***************************************************************************)
(* The publishing loops of the camera system                               *)
(* (apps/sist_camaras/sistema_camaras.rs).  Both loops share one           *)
(* Arc<Mutex<MQTTClient>>; lock() fails only on a poisoned mutex, that is  *)
(* after a panic of a thread holding the client, which no step here does.  *)
(***************************************************************************)
DetectedIncIds == 1..2

\* The incidents the detector creates carry source Automated.
DetectedIncidents == {Incident_new(id, "Automated") : id \in DetectedIncIds}

\* The bytes queued on cameras_tx: a camera's to_bytes().
CamUpdates == {to_bytes(Camera_new(id, 0, 0, 4)) : id \in {1, 2}}

\* One call of mqtt_publish as the loops see it: topic, payload, Ok or Err.
PublishAttempt(topic, payload, ok) == [topic |-> topic, payload |-> payload, ok |-> ok]

\* Faulty variant: an Err of mqtt_publish ends the loop.
loop_goes_on_only_after_ok(ok) == ok

\* The match on res_publish (lines 161-170 and 202-210): both arms only log,
\* neither leaves the loop.
loop_goes_on_after_publish(ok) == TRUE

\* The line logged for the result of a publish.
log_line(ok) == IF ok THEN "published" ELSE "publish error"

PayloadsOn(topic) ==
    LET on_topic(a) == a.topic = topic
        attempts == SelectSeq(pub_attempts, on_topic)
    IN  [i \in 1..Len(attempts) |-> attempts[i].payload]

CamPublisherInit ==
    /\ det_sent = <<>>
    /\ inc_rx = <<>>
    /\ inc_tx_open = TRUE
    /\ inc_thread = "running"
    /\ cam_sent = <<>>
    /\ cam_rx = <<>>
    /\ cam_tx_open = TRUE
    /\ cam_thread = "running"
    /\ pub_attempts = <<>>
    /\ pub_log = <<>>

PubFrame == UNCHANGED <<camVars, monVars, cliVars, brkVars, conVars, idVars, codVars, perVars>>

\* AIDetectorManager::run sends an incident on tx.
AIDetectorSends ==
    /\ inc_tx_open
    /\ Len(det_sent) < MaxDetected
    /\ \E inc \in DetectedIncidents :
        /\ det_sent' = Append(det_sent, inc)
        /\ inc_rx' = Append(inc_rx, inc)
    /\ UNCHANGED <<inc_tx_open, inc_thread, cam_sent, cam_rx, cam_tx_open, cam_thread>>
    /\ UNCHANGED <<pub_attempts, pub_log>>
    /\ PubFrame

\* The detector thread ends and drops tx.
AIDetectorExits ==
    /\ inc_tx_open
    /\ inc_tx_open' = FALSE
    /\ UNCHANGED <<det_sent, inc_rx, inc_thread, cam_sent, cam_rx, cam_tx_open, cam_thread>>
    /\ UNCHANGED <<pub_attempts, pub_log>>
    /\ PubFrame

\* One iteration of `for inc in rx` of spawn_recv_and_publish_inc_thread.
RecvAndPublishInc ==
    /\ inc_thread = "running"
    /\ inc_rx # <<>>
    /\ \E ok \in BOOLEAN :
        /\ pub_attempts' = Append(pub_attempts, PublishAttempt("Inc", Head(inc_rx), ok))
        /\ pub_log' = Append(pub_log, log_line(ok))
        /\ inc_thread' = IF loop_goes_on_after_publish(ok) THEN "running" ELSE "finished"
    /\ inc_rx' = Tail(inc_rx)
    /\ UNCHANGED <<det_sent, inc_tx_open, cam_sent, cam_rx, cam_tx_open, cam_thread>>
    /\ PubFrame

\* `for inc in rx` ends: the channel is empty and every Sender is dropped.
RecvAndPublishIncEnds ==
    /\ inc_thread = "running"
    /\ inc_rx = <<>>
    /\ ~inc_tx_open
    /\ inc_thread' = "finished"
    /\ UNCHANGED <<det_sent, inc_rx, inc_tx_open, cam_sent, cam_rx, cam_tx_open, cam_thread>>
    /\ UNCHANGED <<pub_attempts, pub_log>>
    /\ PubFrame

\* cameras_tx.send(camera.to_bytes()) by the camera logic.
CameraUpdateSends ==
    /\ cam_tx_open
    /\ Len(cam_sent) < MaxCamUpdates
    /\ \E cam_bytes \in CamUpdates :
        /\ cam_sent' = Append(cam_sent, cam_bytes)
        /\ cam_rx' = Append(cam_rx, cam_bytes)
    /\ UNCHANGED <<det_sent, inc_rx, inc_tx_open, inc_thread, cam_tx_open, cam_thread>>
    /\ UNCHANGED <<pub_attempts, pub_log>>
    /\ PubFrame

\* Every Sender of camera updates is dropped.
CamerasTxDropped ==
    /\ cam_tx_open
    /\ cam_tx_open' = FALSE
    /\ UNCHANGED <<det_sent, inc_rx, inc_tx_open, inc_thread, cam_sent, cam_rx, cam_thread>>
    /\ UNCHANGED <<pub_attempts, pub_log>>
    /\ PubFrame

\* One iteration of `while let Ok(cam_bytes) = rx.recv()` of publish_to_topic.
PublishToTopic ==
    /\ cam_thread = "running"
    /\ cam_rx # <<>>
    /\ \E ok \in BOOLEAN :
        /\ pub_attempts' = Append(pub_attempts, PublishAttempt("Cam", Head(cam_rx), ok))
        /\ pub_log' = Append(pub_log, log_line(ok))
        /\ cam_thread' = IF loop_goes_on_after_publish(ok) THEN "running" ELSE "finished"
    /\ cam_rx' = Tail(cam_rx)
    /\ UNCHANGED <<det_sent, inc_rx, inc_tx_open, inc_thread, cam_sent, cam_tx_open>>
    /\ PubFrame

\* rx.recv() returns Err: the channel is empty and every Sender is dropped.
PublishToTopicEnds ==
    /\ cam_thread = "running"
    /\ cam_rx = <<>>
    /\ ~cam_tx_open
    /\ cam_thread' = "finished"
    /\ UNCHANGED <<det_sent, inc_rx, inc_tx_open, inc_thread, cam_sent, cam_rx, cam_tx_open>>
    /\ UNCHANGED <<pub_attempts, pub_log>>
    /\ PubFrame

(***************************************************************************)
(* The periodic incident publisher of the monitoring station               *)
(* (apps/sistema_monitoreo.rs).                                            *)
(***************************************************************************)
PeriodicInit ==
    /\ per_incidents = <<>>
    /\ per_attempts = <<>>
    /\ per_periods = 0

PerFrame == UNCHANGED <<camVars, monVars, cliVars, brkVars, conVars, idVars, codVars, pubVars>>

\* Faulty variant: the incident is marked as sent whatever mqtt_publish returned.
mark_sent_whatever_the_result(incident, ok) == [incident EXCEPT !.sent = TRUE]

\* The body of the loop of publish_incident for one incident that is not
\* sent yet (lines 109-123): sent = true in the Ok arm only.
mark_sent_after_publish(incident, ok) ==
    IF ok THEN [incident EXCEPT !.sent = TRUE] ELSE incident

\* The attempts one call of publish_incident makes, in list order.
RECURSIVE AttemptsOfPeriod(_, _, _)
AttemptsOfPeriod(incidents, results, i) ==
    IF i > Len(incidents)
    THEN <<>>
    ELSE LET rest == AttemptsOfPeriod(incidents, results, i + 1)
         IN  IF ~incidents[i].sent
             THEN <<[idx |-> i, id |-> incidents[i].id, ok |-> results[i],
                     period |-> per_periods + 1]>> \o rest
             ELSE rest

\* The gtk UI adds an incident (Incident::new starts with sent = false).
UiAddsIncident ==
    /\ Len(per_incidents) < MaxPerIncidents
    /\ per_incidents' = Append(per_incidents,
            [id |-> generate_new_incident_id(Len(per_incidents)), sent |-> FALSE])
    /\ UNCHANGED <<per_attempts, per_periods>>
    /\ PerFrame

\* One call of publish_incident from the loop of main; results[i] is what
\* mqtt_publish returns for the i-th incident if it is called for it.
PublishIncident ==
    /\ per_periods < MaxPeriods
    /\ \E results \in [1..Len(per_incidents) -> BOOLEAN] :
        /\ per_attempts' = per_attempts \o AttemptsOfPeriod(per_incidents, results, 1)
        /\ per_incidents' = [i \in 1..Len(per_incidents) |->
                IF ~per_incidents[i].sent
                THEN mark_sent_after_publish(per_incidents[i], results[i])
                ELSE per_incidents[i]]
    /\ per_periods' = per_periods + 1
    /\ PerFrame

(***************************************************************************)
(* Specifications.                                                         *)
(***************************************************************************)
\* The initial state with the given clients connected to the broker and the
\* given number of calls into the server that may fail.
InitWith(online, faults) ==
    /\ CameraInit
    /\ MonitorInit
    /\ ClientInit
    /\ BrokerInitWith(online, faults)
    /\ ConnectionInit
    /\ IncidentIdInit
    /\ CodecInit
    /\ CamPublisherInit
    /\ PeriodicInit

Init == InitWith(BrkClients, MaxFaults)

NextCamera ==
    \/ NewCamera
    \/ AppendToIncsBeingManaged
    \/ RemoveFromIncsBeingManaged
    \/ MutuallyAddIfBordering
    \/ RemoveFromListIfBordering
    \/ DeleteCamera
    \/ ManageIncident

NextCameraApi ==
    \/ NewCamera
    \/ AppendToIncsBeingManaged
    \/ RemoveFromIncsBeingManaged
    \/ MutuallyAddIfBordering
    \/ RemoveFromListIfBordering
    \/ DeleteCamera

NextMonitor ==
    \/ HandleDroneMessage
    \/ HandleIncidentMessage
    \/ HandleCameraMessage
    \/ CreateIncident

NextClient ==
    \/ CloneClient
    \/ MqttPublish
    \/ MqttSubscribe
    \/ WaitForAckBegin
    \/ WaitForAckEnd
    \/ PubackArrives

NextPacketId == MintPacketId

NextBroker ==
    \/ ClientSends
    \/ CreateThreadPool
    \/ SpawnOnPool
    \/ RunOnPool
    \/ ProcessInline
    \/ SendersDropped
    \/ HandlePacketsReturns

NextBrokerInline ==
    \/ ClientSends
    \/ CreateThreadPool
    \/ ProcessInline

NextConnection ==
    \/ MqttConnectToBroker
    \/ MqttDisconnect

(***************************************************************************)
(* SubscribeMessage (subscribe_message.rs).  A String is the sequence of   *)
(* its UTF-8 bytes.                                                        *)
(***************************************************************************)
\* u16::to_be_bytes and u16::from_be_bytes.
u16_to_be_bytes(n) == <<(n \div U8) % U8, n % U8>>

u16_from_be_bytes(hi, lo) == hi * U8 + lo

\* SubscribeMessage::new of subscribe_message.rs
SubsMsg_new(packet_id, topics) ==
    [packet_type |-> 8, flags |-> 2, packet_identifier |-> packet_id,
     topic_filters |-> topics]

\* SubscribeMessage::to_bytes, lines 29-35: the loop over topic_filters from
\* element i on.
RECURSIVE TopicFiltersBytes(_, _)
TopicFiltersBytes(topic_filters, i) ==
    IF i > Len(topic_filters)
    THEN <<>>
    ELSE u16_to_be_bytes(Len(topic_filters[i][1]) % U16)
            \o topic_filters[i][1]
            \o <<topic_filters[i][2]>>
            \o TopicFiltersBytes(topic_filters, i + 1)

\* SubscribeMessage::to_bytes
SubsMsg_to_bytes(msg) ==
    <<msg.packet_type, msg.flags>>
        \o u16_to_be_bytes(msg.packet_identifier)
        \o u16_to_be_bytes(Len(msg.topic_filters) % U16)
        \o TopicFiltersBytes(msg.topic_filters, 1)

\* subs_msg_from_bytes: type, flags, packet id and the length of the vector
\* are read, then one (topic, qos) element, the loop over the elements being
\* commented out; an index past the end of the bytes panics.
subs_msg_from_bytes(mgs_bytes) ==
    IF Len(mgs_bytes) < 8
    THEN Err("panic")
    ELSE LET tipo == mgs_bytes[1]
             flags == mgs_bytes[2]
             packet_id == u16_from_be_bytes(mgs_bytes[3], mgs_bytes[4])
             topics_vec_len == u16_from_be_bytes(mgs_bytes[5], mgs_bytes[6])
             elem_string_len == u16_from_be_bytes(mgs_bytes[7], mgs_bytes[8])
         IN  IF Len(mgs_bytes) < 8 + elem_string_len + 1
             THEN Err("panic")
             ELSE Ok([packet_type |-> tipo, flags |-> flags,
                      packet_identifier |-> packet_id,
                      topic_filters |->
                        <<<<SubSeq(mgs_bytes, 9, 8 + elem_string_len),
                            mgs_bytes[9 + elem_string_len]>>>>])

\* Topic names ("", "t", "t1"), filters and packet ids the messages are built of.
SubTopicNames == {<<>>, <<116>>, <<116, 49>>}

SubFilters == SubTopicNames \X {0, 1}

SubPacketIds == {1, 258, 65535}

\* Vec<(String, u8)> of at most n filters.
RECURSIVE FilterLists(_)
FilterLists(n) ==
    IF n = 0
    THEN {<<>>}
    ELSE FilterLists(n - 1)
            \cup {Append(l, f) : l \in {x \in FilterLists(n - 1) : Len(x) = n - 1},
                                 f \in SubFilters}

\* A SubscribeMessage is encoded and decoded again.
SubscribeRoundTrip ==
    /\ cod_op = "none"
    /\ \E packet_id \in SubPacketIds, topics \in FilterLists(MaxFilters) :
        /\ cod_op' = "SubscribeMessage"
        /\ cod_in' = SubsMsg_new(packet_id, topics)
        /\ cod_out' = subs_msg_from_bytes(SubsMsg_to_bytes(cod_in'))
        /\ CodFrame

(***************************************************************************)
(* ConnectFlags (mqtt/messages/connect_flags.rs).                          *)
(***************************************************************************)
\* Bit k of a byte: (byte & (1 << k)) != 0.
BitSet(byte, k) == (byte \div (2 ^ k)) % 2 = 1

\* ConnectFlags::new
ConnectFlags_new(clean_session, will_flag, will_qos, will_retain, username_flag, password_flag, reserved) ==
    [username_flag |-> username_flag, password_flag |-> password_flag,
     will_retain |-> will_retain, will_qos |-> will_qos, will_flag |-> will_flag,
     clean_session |-> clean_session, reserved |-> reserved]

\* to_byte that puts will_qos one bit too high, on bits 5..4.
to_byte_will_qos_on_bits_5_4(f) ==
    (IF f.username_flag THEN 128 ELSE 0)
        + (IF f.password_flag THEN 64 ELSE 0)
        + (IF f.will_retain THEN 32 ELSE 0)
        + (f.will_qos % 4) * 16
        + (IF f.will_flag THEN 4 ELSE 0)
        + (IF f.clean_session THEN 2 ELSE 0)

\* ConnectFlags::to_byte: the masks or-ed into the byte are disjoint, so the
\* byte is their sum; reserved is not written.
to_byte(f) ==
    (IF f.username_flag THEN 128 ELSE 0)
        + (IF f.password_flag THEN 64 ELSE 0)
        + (IF f.will_retain THEN 32 ELSE 0)
        + (f.will_qos % 4) * 8
        + (IF f.will_flag THEN 4 ELSE 0)
        + (IF f.clean_session THEN 2 ELSE 0)

\* ConnectFlags::from_byte
from_byte(byte) ==
    [username_flag |-> BitSet(byte, 7),
     password_flag |-> BitSet(byte, 6),
     will_retain |-> BitSet(byte, 5),
     will_qos |-> (byte \div 8) % 4,
     will_flag |-> BitSet(byte, 2),
     clean_session |-> BitSet(byte, 1),
     reserved |-> BitSet(byte, 0)]

\* Values of will_qos the flags are built with.
WillQosValues == {0, 1, 2, 3, 4, 255}

\* A ConnectFlags is written to its byte and read back.
ConnectFlagsRoundTrip ==
    /\ cod_op = "none"
    /\ \E clean_session \in BOOLEAN, will_flag \in BOOLEAN, will_qos \in WillQosValues,
          will_retain \in BOOLEAN, username_flag \in BOOLEAN, password_flag \in BOOLEAN,
          reserved \in BOOLEAN :
        /\ cod_op' = "ConnectFlags"
        /\ cod_in' = ConnectFlags_new(clean_session, will_flag, will_qos, will_retain,
                                      username_flag, password_flag, reserved)
        /\ cod_out' = [byte |-> to_byte(cod_in'), flags |-> from_byte(to_byte(cod_in'))]
        /\ CodFrame

\* A connect-flags byte is decoded.
ConnectFlagsFromByte ==
    /\ cod_op = "none"
    /\ \E byte \in U8Values :
        /\ cod_op' = "from_byte"
        /\ cod_in' = byte
        /\ cod_out' = from_byte(byte)
        /\ CodFrame

NextIncidentId ==
    \/ GetNextIncidentId
    \/ GenerateNewIncidentId

NextCodec ==
    \/ DronRoundTrip
    \/ DronNew
    \/ SubscribeRoundTrip
    \/ ConnectFlagsRoundTrip
    \/ ConnectFlagsFromByte
    \/ GetBatteryLvl

NextCamPublisher ==
    \/ AIDetectorSends
    \/ AIDetectorExits
    \/ RecvAndPublishInc
    \/ RecvAndPublishIncEnds
    \/ CameraUpdateSends
    \/ CamerasTxDropped
    \/ PublishToTopic
    \/ PublishToTopicEnds

NextPeriodic ==
    \/ UiAddsIncident
    \/ PublishIncident

Next ==
    \/ NextCamPublisher
    \/ NextPeriodic
    \/ NextCamera
    \/ NextMonitor
    \/ NextClient
    \/ NextBroker
    \/ NextConnection
    \/ NextIncidentId
    \/ NextCodec

SpecCamera == Init /\ [][NextCamera]_vars

SpecCameraApi == Init /\ [][NextCameraApi]_vars

SpecMonitor == Init /\ [][NextMonitor]_vars

SpecClient == Init /\ [][NextClient]_vars

SpecPacketId == Init /\ [][NextPacketId]_vars

\* The MessageProcessor over a server whose calls succeed.
SpecBroker == InitWith(BrkClients, 0) /\ [][NextBroker]_vars

\* The handlers called one after the other on the thread of handle_packets,
\* over a server whose calls may fail.
SpecBrokerInline == Init /\ [][NextBrokerInline]_vars

\* handle_packets with one connected client and a server whose calls succeed,
\* up to its return.
SpecDispatch == InitWith({"c1"}, 0) /\ [][NextBroker]_vars

SpecConnection == Init /\ [][NextConnection]_vars

SpecIncidentId == Init /\ [][NextIncidentId]_vars

SpecCodec == Init /\ [][NextCodec]_vars

SpecCamPublisher == Init /\ [][NextCamPublisher]_vars

SpecPeriodic == Init /\ [][NextPeriodic]_vars

Spec == Init /\ [][Next]_vars

(***************************************************************************)
(* Claims about the cameras.                                               *)
(***************************************************************************)

\* C3: a camera created by Camera::new is Active exactly when its list of
\* managed incidents is non-empty, after any sequence of
\* append_to_incs_being_managed and remove_from_incs_being_managed calls.
C3_ActiveIffManaging ==
    \A id \in DOMAIN cameras :
        (cameras[id].state = "Active") <=> (cameras[id].incs_being_managed # <<>>)

\* C3 witness: a remove call that emptied the list of a camera that had been
\* activated by an append, leaving it in SavingMode.
C3_Witness ==
    /\ cam_last.op = "remove_from_incs_being_managed"
    /\ cam_last.changed
    /\ cameras[cam_last.cam].incs_being_managed = <<>>
    /\ cameras[cam_last.cam].state = "SavingMode"

\* C4: the bordering relation is symmetric in every state reached through
\* mutually_add_if_bordering and remove_from_list_if_bordering.
C4_BorderSymmetric ==
    \A a \in DOMAIN cameras, b \in DOMAIN cameras :
        (b \in Range(cameras[a].border_cameras)) <=> (a \in Range(cameras[b].border_cameras))

\* C23: Camera::from_bytes(c.to_bytes()) == c for every camera c reachable
\* through the Camera operations, whatever its state, border list, deleted
\* flag and list of managed incidents.
C23_CameraRoundTrip ==
    \A id \in DOMAIN cameras : from_bytes(to_bytes(cameras[id])) = cameras[id]

\* Square of the Euclidean distance between cameras a and b, in the units of
\* const_border_range.
SquaredDistance(a, b) ==
    (cameras[a].latitude - cameras[b].latitude) * (cameras[a].latitude - cameras[b].latitude)
        + (cameras[a].longitude - cameras[b].longitude)
            * (cameras[a].longitude - cameras[b].longitude)

\* C29: mutually_add_if_bordering(a, b) adds b's id to a's border list and
\* a's id to b's border list if and only if the Euclidean distance between
\* the two camera positions is at most 5.0/1e7; otherwise both border lists
\* are left unchanged.
C29_MutuallyAddIffWithinBorderRange ==
    [][(cam_ops' # cam_ops /\ cam_last'.op = "mutually_add_if_bordering") =>
        LET a == cam_last'.cam
            b == cam_last'.arg
        IN  IF SquaredDistance(a, b) <= const_border_range * const_border_range
            THEN /\ cameras'[a].border_cameras = Append(cameras[a].border_cameras, b)
                 /\ cameras'[b].border_cameras = Append(cameras[b].border_cameras, a)
            ELSE /\ cameras'[a].border_cameras = cameras[a].border_cameras
                 /\ cameras'[b].border_cameras = cameras[b].border_cameras]_vars

\* Two cameras at distance exactly 5 were offered to each other and each
\* lists the other.
C29_Witness ==
    /\ cam_last.op = "mutually_add_if_bordering"
    /\ cam_last.changed
    /\ SquaredDistance(cam_last.cam, cam_last.arg) = const_border_range * const_border_range
    /\ cam_last.arg \in Range(cameras[cam_last.cam].border_cameras)
    /\ cam_last.cam \in Range(cameras[cam_last.arg].border_cameras)

\* C37: remove_from_incs_being_managed(i) on a camera that does not manage
\* incident i changes nothing: state, managed incidents, border list and
\* deleted flag are all unchanged.
C37_RemoveOfUnmanagedIncidentChangesNothing ==
    [][(/\ cam_ops' # cam_ops
        /\ cam_last'.op = "remove_from_incs_being_managed"
        /\ cam_last'.arg \notin Range(cameras[cam_last'.cam].incs_being_managed))
            => cameras' = cameras]_vars

\* An Active camera managing another incident was asked to remove an incident
\* it does not manage, and nothing changed.
C37_Witness ==
    /\ cam_last.op = "remove_from_incs_being_managed"
    /\ ~cam_last.changed
    /\ cameras[cam_last.cam].state = "Active"
    /\ cameras[cam_last.cam].incs_being_managed # <<>>
    /\ cam_last.arg \notin Range(cameras[cam_last.cam].incs_being_managed)

\* C38: after any sequence of mutually_add_if_bordering and
\* remove_from_list_if_bordering calls no camera's border_cameras list holds
\* the same camera id twice, and after remove_from_list_if_bordering(c, d)
\* the list of c does not hold d's id.
C38_BorderListsHaveNoDuplicates ==
    /\ \A id \in DOMAIN cameras :
            \A i \in 1..Len(cameras[id].border_cameras),
               j \in 1..Len(cameras[id].border_cameras) :
                i # j => cameras[id].border_cameras[i] # cameras[id].border_cameras[j]
    /\ cam_last.op = "remove_from_list_if_bordering"
            => cam_last.arg \notin Range(cameras[cam_last.cam].border_cameras)

MonEntries == Range(incidents_to_resolve)

\* Ids of the drones recorded in ManagingIncident for an entry.
DronIdsOf(entry) == {entry.drones[i].id : i \in 1..Len(entry.drones)}

\* C2: an incident is marked resolved and sent for publication only if
\* ManagingIncident messages for it were processed from at least 2 distinct
\* drone ids.
C2_ResolvedOnlyAfterTwoDistinctDrones ==
    \A inc_info \in IncidentInfos :
        SentResolved(inc_info) =>
            \E e \in MonEntries : e.incident_info = inc_info /\ Cardinality(DronIdsOf(e)) >= 2

\* C5: once the list of drones observed in ManagingIncident for an incident
\* has reached size 2, the monitor eventually marks the incident resolved and
\* sends it, whatever the order of the messages.  The list never shrinks and
\* the monitor resolves only at size 2 exactly, so a list that has outgrown
\* size 2, of an incident that has reached the monitor, belongs to an
\* incident already resolved and sent.
C5_ResolvedOnceTwoDronesSeen ==
    \A e \in MonEntries :
        (Len(e.drones) > 2 /\ e.incident_info \in mon_added) => SentResolved(e.incident_info)

\* C21: a manual and an automated incident that share the same numeric id are
\* tracked independently: drones observed in ManagingIncident for one of them
\* are never counted towards the other, so no entry of incidents_to_resolve
\* holds drones that resolve different incidents.
C21_SameIdIncidentsTrackedApart ==
    \A e \in MonEntries :
        \A j \in 1..Len(e.drones), k \in 1..Len(e.drones) :
            e.drones[j].resolving = e.drones[k].resolving

(***************************************************************************)
(* Claims about the client library.                                        *)
(***************************************************************************)
\* Indices of stream holding a PUBLISH that mqtt_publish wrote.
SentByPublish == {i \in 1..Len(stream) : stream[i].type = "PUBLISH" /\ i \notin cli_resent}

\* The retransmitter holds the publish at index at of stream.
Registered(at) == \E h \in DOMAIN writers : writers[h].waiting = at

\* C6: on one connection no two packets sent by mqtt_publish carry the same
\* packet id while the PUBACK of the earlier one is outstanding, cloned
\* handles included.
C6_UniqueOutstandingPacketIds ==
    \A i \in SentByPublish, j \in SentByPublish :
        (i < j /\ stream[i].qos = 1 /\ i \notin cli_acked)
            => stream[i].packet_id # stream[j].packet_id

\* C7: the first packet id minted is 1, each further one is the previous one
\* plus one, and no minted id is 0, however many ids were minted.
C7_PacketIdsCountFromOneNeverZero ==
    pid_last # -1 =>
        /\ pid_last # 0
        /\ pid_last = (IF pid_prev = -1 THEN 1 ELSE pid_prev + 1)

\* C8: a publish resent after its deadline elapsed without PUBACK carries
\* DUP = 1.
C8_ResendCarriesDup ==
    \A i \in cli_resent : stream[i].dup = 1

\* C9: after mqtt_publish returned Ok, a QoS-1 message is registered with the
\* retransmitter until its PUBACK arrives, and a QoS-0 message is not
\* registered.
C9_PublishRegistersQos1 ==
    \A k \in 1..Len(cli_returned) :
        (cli_returned[k].call = "mqtt_publish" /\ cli_returned[k].ok) =>
            LET at == cli_returned[k].at
            IN  /\ (stream[at].qos = 1 /\ at \notin cli_acked) => Registered(at)
                /\ stream[at].qos = 0 => ~Registered(at)

(***************************************************************************)
(* Claims about the broker.                                                *)
(***************************************************************************)
\* Indices of the publishes the broker wrote to client c.
DeliveriesTo(c) == {i \in 1..Len(outbox[c]) : outbox[c][i].type = "PUBLISH"}

\* C1: two PUBLISH packets the broker received in some order from the same
\* client on the same topic are sent to every subscriber in that order.
C1_FifoPerPublisherAndTopic ==
    \A c \in BrkClients :
        \A i \in DeliveriesTo(c), j \in DeliveriesTo(c) :
            (/\ i < j
             /\ outbox[c][i].publisher = outbox[c][j].publisher
             /\ outbox[c][i].topic = outbox[c][j].topic)
                => outbox[c][i].origin <= outbox[c][j].origin

\* C10: once the broker has processed the PUBACK of subscriber S for a packet
\* id, S has no in-flight entry of that packet id left.
C10_PubackRemovesInFlight ==
    \A p \in brk_done :
        (p.type = "Puback" /\ p.decodes) =>
            \A entry \in in_flight[p.client] : entry[2] # p.packet_id

\* The packet of arrival number n, once handled.
OriginPacket(n) == CHOOSE p \in brk_done : p.n = n

\* C11: a QoS-1 PUBLISH received twice from one client (same client id and
\* packet id) is answered with a PUBACK at each reception and is written to
\* each subscriber only once.
C11_DuplicatePublishFannedOutOnce ==
    /\ \A c \in BrkClients :
        \A i \in DeliveriesTo(c), j \in DeliveriesTo(c) :
            LET p1 == OriginPacket(outbox[c][i].origin)
                p2 == OriginPacket(outbox[c][j].origin)
            IN  (p1.qos = 1 /\ p1.client = p2.client /\ p1.packet_id = p2.packet_id)
                    => p1.n = p2.n
    /\ \A p \in brk_done :
        (p.type = "Publish" /\ p.decodes /\ p.qos = 1) =>
            Cardinality({i \in 1..Len(outbox[p.client]) :
                            /\ outbox[p.client][i].type = "PUBACK"
                            /\ outbox[p.client][i].packet_id = p.packet_id})
              = Cardinality({q \in brk_done :
                            /\ q.type = "Publish" /\ q.decodes /\ q.qos = 1
                            /\ q.client = p.client /\ q.packet_id = p.packet_id})

\* C12: the SUBACK of a SUBSCRIBE is sent to the subscriber before any
\* retained-latest message that the SUBSCRIBE makes the broker deliver to it.
C12_SubackBeforeRetained ==
    \A c \in BrkClients :
        \A j \in DeliveriesTo(c) :
            LET sub == OriginPacket(outbox[c][j].cause)
            IN  sub.type = "Subscribe" =>
                    \E i \in 1..(j - 1) :
                        /\ outbox[c][i].type = "SUBACK"
                        /\ outbox[c][i].packet_id = sub.packet_id

\* The PUBLISH packets on a topic that the broker has handled.
PublishesOn(topic) ==
    {p \in brk_done : p.type = "Publish" /\ p.decodes /\ p.topic = topic}

\* C13: once every PUBLISH received has been processed, the retained-latest
\* entry of each topic is the last PUBLISH the broker received on that topic,
\* whatever the pool's interleaving.
C13_RetainedIsLastAccepted ==
    (rx_1 = <<>> /\ spawned = {}) =>
        \A topic \in BrkTopics :
            PublishesOn(topic) # {} =>
                /\ topic \in DOMAIN retained
                /\ \A p \in PublishesOn(topic) : p.n <= retained[topic].n

\* C14: once the broker has handled a PUBLISH or SUBSCRIBE of a client that
\* does not decode, the connection of that client is closed.
C14_DecodeErrorClosesConnection ==
    \A p \in brk_done :
        (p.type \in {"Publish", "Subscribe"} /\ ~p.decodes) => ~connected[p.client]

(***************************************************************************)
(* Claims about a client connection.                                       *)
(***************************************************************************)
\* C15: mqtt_connect_to_broker returns a connection only if CONNECT was
\* written and the first packet read after it is a CONNACK whose return code
\* is ConnectionAccepted; otherwise it returns an error and no listener
\* thread is spawned.
C15_ConnectOkOnlyOnAcceptedConnack ==
    /\ con_result = "Ok" =>
        /\ con_calls # <<>> /\ con_calls[1].packet.type = "CONNECT" /\ con_calls[1].ok
        /\ con_first # <<>>
        /\ con_first[1].header_ok /\ con_first[1].type = "Connack"
        /\ con_first[1].body_ok /\ con_first[1].decodes
        /\ con_first[1].code = "ConnectionAccepted"
    /\ con_listener => con_result = "Ok"

\* A connection was returned and its listener spawned.
C15_Witness ==
    con_result = "Ok" /\ con_listener /\ con_first[1].code = "ConnectionAccepted"

\* C16: the CONNECT packet written carries the will topic, the will message
\* and the will QoS given by the caller.
C16_ConnectCarriesWill ==
    \A i \in 1..Len(con_calls) :
        con_calls[i].packet.type = "CONNECT" =>
            /\ con_calls[i].packet.will_topic = con_args.will_topic
            /\ con_calls[i].packet.will_message = WillContent_to_bytes(con_args.will_msg_content)
            /\ con_calls[i].packet.will_qos = con_args.will_qos

\* C17: each mqtt_disconnect writes DISCONNECT first; if the write fails it
\* returns the error and makes no other call; if it succeeds it shuts the
\* socket down in both directions and returns the result of the shutdown.
C17_DisconnectWritesThenShutsDown ==
    \A k \in 1..Len(con_returned) :
        LET r == con_returned[k]
            write == con_calls[r.from]
        IN  /\ write.op = "write" /\ write.packet.type = "DISCONNECT"
            /\ ~write.ok => (r.to = r.from /\ ~r.ok)
            /\ write.ok =>
                /\ r.to = r.from + 1
                /\ con_calls[r.to].op = "shutdown" /\ con_calls[r.to].packet.type = "Both"
                /\ r.ok = con_calls[r.to].ok

\* A disconnect whose write failed, then one that wrote and shut down.
C17_Witness ==
    /\ Len(con_returned) = 2
    /\ ~con_returned[1].ok /\ con_returned[1].to = con_returned[1].from
    /\ con_returned[2].ok /\ con_stream = "shutdown"

(***************************************************************************)
(* Further claims about the cameras.                                       *)
(***************************************************************************)
\* C18: right after remove_from_incs_being_managed(i) on a camera, the camera
\* does not manage i any more, and if it manages nothing it is in SavingMode,
\* however many times i was appended before.
C18_RemovedIncidentNoLongerManaged ==
    cam_last.op = "remove_from_incs_being_managed" =>
        LET cam == cameras[cam_last.cam]
        IN  /\ cam_last.arg \notin Range(cam.incs_being_managed)
            /\ cam.incs_being_managed = <<>> => cam.state = "SavingMode"

\* C19: once delete_camera has been applied to a camera, no later call makes
\* its state Active or adds an incident id to its managed incidents, and its
\* serialization carries deleted = 1.
C19_DeletedCameraIsNeverActivated ==
    [][\A id \in DOMAIN cameras :
        cameras[id].deleted =>
            /\ cameras'[id].state = "Active" => cameras[id].state = "Active"
            /\ Len(cameras'[id].incs_being_managed) <= Len(cameras[id].incs_being_managed)
            /\ to_bytes(cameras'[id])[Len(to_bytes(cameras'[id]))] = 1]_vars

\* Camera id is Active and manages incident inc_id.
Manages(id, inc_id) ==
    cameras[id].state = "Active" /\ inc_id \in Range(cameras[id].incs_being_managed)

\* The cameras in whose range the incident just processed lies.
RegisteredLast ==
    {a \in DOMAIN cameras :
        is_not_deleted(cameras[a]) /\ will_register(cameras[a], cam_last.arg.pos)}

\* Every camera in whose range the incident just processed lies, and every
\* camera of its border list, is Active and manages it.
InRangeAndBorderingManage ==
    \A a \in RegisteredLast :
        /\ Manages(a, cam_last.arg.id)
        /\ \A b \in Range(cameras[a].border_cameras) : Manages(b, cam_last.arg.id)

C22_IncidentIdsPositiveAndFresh ==
    /\ 0 \notin ui_inc_ids
    /\ ~ui_inc_dup
    /\ 0 \notin api_inc_ids
    /\ ~api_inc_dup

(***************************************************************************)
(* Claims about the codecs and constructors.                               *)
(***************************************************************************)
\* C24: DronCurrentInfo::from_bytes(d.to_bytes()) == Ok(d) for every
\* DronCurrentInfo d, with inc_id_to_resolve None or Some(id) for every 8-bit
\* id.
C24_DronRoundTrip ==
    cod_op = "DronCurrentInfo" => cod_out = Ok(cod_in)

\* C24, for the incident ids other than 0: DronCurrentInfo::from_bytes(
\* d.to_bytes()) == Ok(d) for every DronCurrentInfo d whose inc_id_to_resolve
\* is None or Some(id) with id in 1..255.
C24_DronRoundTripNonZeroIncId ==
    (cod_op = "DronCurrentInfo" /\ cod_in.inc_id_to_resolve # Some(0))
        => cod_out = Ok(cod_in)

\* A drone resolving incident 255 while flying was encoded and read back.
C24_Witness ==
    /\ cod_op = "DronCurrentInfo"
    /\ cod_in.inc_id_to_resolve = Some(255)
    /\ cod_in.flying_info # None
    /\ cod_out = Ok(cod_in)

\* C25: subs_msg_from_bytes(m.to_bytes()) == Ok(m) for every SubscribeMessage
\* m built by SubscribeMessage::new, whatever the number of (topic, qos)
\* filters it holds.
C25_SubscribeRoundTrip ==
    cod_op = "SubscribeMessage" => cod_out = Ok(cod_in)

\* C26: ConnectFlags::from_byte(f.to_byte()) == f for every ConnectFlags f
\* with reserved = false and will_qos in 0..=3, the bits being username = 7,
\* password = 6, will-retain = 5, will-qos = 4..3, will-flag = 2,
\* clean-session = 1, reserved = 0.
C26_ConnectFlagsRoundTrip ==
    (cod_op = "ConnectFlags" /\ ~cod_in.reserved /\ cod_in.will_qos \in 0..3) =>
        /\ cod_out.flags = cod_in
        /\ BitSet(cod_out.byte, 7) = cod_in.username_flag
        /\ BitSet(cod_out.byte, 6) = cod_in.password_flag
        /\ BitSet(cod_out.byte, 5) = cod_in.will_retain
        /\ (cod_out.byte \div 8) % 4 = cod_in.will_qos
        /\ BitSet(cod_out.byte, 2) = cod_in.will_flag
        /\ BitSet(cod_out.byte, 1) = cod_in.clean_session
        /\ ~BitSet(cod_out.byte, 0)

\* Flags with will_qos 3 and will-retain set, the two fields that share a
\* boundary, were written and read back.
C26_Witness ==
    /\ cod_op = "ConnectFlags"
    /\ ~cod_in.reserved
    /\ cod_in.will_qos = 3
    /\ cod_in.will_retain
    /\ ~cod_in.will_flag
    /\ cod_out.flags = cod_in

\* C27: decoding a connect-flags byte whose reserved bit (bit 0) is set, or
\* whose will-QoS field is 3, fails with a malformed-packet error instead of
\* yielding a ConnectFlags value.
C27_ReservedBitOrQos3Rejected ==
    (cod_op = "from_byte" /\ (BitSet(cod_in, 0) \/ (cod_in \div 8) % 4 = 3))
        => cod_out = Err("MalformedPacket")

\* C28: get_battery_lvl returns the battery_lvl field of the drone, for every
\* combination of id and battery level.
C28_GetBatteryLvlReturnsBattery ==
    cod_op = "get_battery_lvl" => cod_out = cod_in.battery_lvl

\* C30: a drone created by Dron::new(id) starts with the given id, in state
\* ExpectingToRecvIncident, positioned at its configured range center, with
\* battery level 100, no incident to resolve and no flying info.
C30_DronStartsIdleAtRangeCenter ==
    (cod_op = "Dron_new" /\ cod_in.properties_res.ok) =>
        /\ cod_out.ok
        /\ cod_out.value.dron_properties = cod_in.properties_res.value
        /\ cod_out.value.current_info.id = cod_in.id
        /\ cod_out.value.current_info.state = "ExpectingToRecvIncident"
        /\ cod_out.value.current_info.latitude = cod_out.value.dron_properties.range_center_lat
        /\ cod_out.value.current_info.longitude = cod_out.value.dron_properties.range_center_lon
        /\ cod_out.value.current_info.battery_lvl = 100
        /\ cod_out.value.current_info.inc_id_to_resolve = None
        /\ cod_out.value.current_info.flying_info = None

\* Drone 255 was created with its range center at (-34, -58).
C30_Witness ==
    /\ cod_op = "Dron_new"
    /\ cod_out.ok
    /\ cod_out.value.current_info.id = 255
    /\ cod_out.value.current_info.latitude = -34
    /\ cod_out.value.current_info.longitude = -58

\* Places of publish_incident_tx holding the resolved incident inc_info.
ResolvedSends(inc_info) ==
    {i \in 1..Len(publish_incident_tx) :
        /\ publish_incident_tx[i].resolved
        /\ IncidentInfo_new(publish_incident_tx[i].id, publish_incident_tx[i].source) = inc_info}

\* C32: for each incident (id, source) the monitor sends the resolved
\* incident for publication at most once, whatever drone, camera and incident
\* messages it processes afterwards, the resolved incident coming back on Inc
\* included.
C32_ResolvedIncidentSentAtMostOnce ==
    \A inc_info \in IncidentInfos : Cardinality(ResolvedSends(inc_info)) <= 1

NewAttempts == SubSeq(per_attempts', Len(per_attempts) + 1, Len(per_attempts'))

NewAttemptsOf(i) == {n \in 1..Len(NewAttempts) : NewAttempts[n].idx = i}

JustHandled == brk_done' \ brk_done

CallsFor(calls, packet, call) == {c \in calls : c.n = packet.n /\ c.call = call}

LastOf(box) == box[Len(box)]

\* C33: for every PUBLISH that decodes, handle_publish runs the fan-out to
\* the subscribers (handle_publish_message) also when sending the PUBACK to
\* the publisher failed: every subscriber of the topic is written the
\* message and the message becomes the retained one of its topic.
C33_FanOutAlsoWhenPubackFailed ==
    [][\A p \in JustHandled : (p.type = "Publish" /\ p.decodes) =>
        /\ CallsFor(brk_calls', p, "handle_publish_message") # {}
        /\ retained'[p.topic] = p
        /\ \A c \in SubscribersOf(subscriptions, p.topic) :
            /\ Len(outbox'[c]) = Len(outbox[c]) + (IF c = p.client /\ p.qos = 1
                    /\ ServerCall(p, 1, "send_puback_to", TRUE) \in brk_calls' THEN 2 ELSE 1)
            /\ LastOf(outbox'[c]).type = "PUBLISH"
            /\ LastOf(outbox'[c]).origin = p.n]_vars

\* send_puback_to failed for a QoS-1 PUBLISH, no PUBACK was written to the
\* publisher, and a subscriber was written the message.
C33_Witness ==
    \E p \in brk_done :
        /\ p.type = "Publish" /\ p.decodes /\ p.qos = 1
        /\ ServerCall(p, 1, "send_puback_to", FALSE) \in brk_calls
        /\ \A i \in 1..Len(outbox[p.client]) : outbox[p.client][i].type # "PUBACK"
        /\ \E c \in BrkClients : \E i \in 1..Len(outbox[c]) :
                outbox[c][i].type = "PUBLISH" /\ outbox[c][i].origin = p.n

\* C34: for every SUBSCRIBE that decodes the broker attempts exactly one
\* SUBACK carrying the SUBSCRIBE's packet id, also when adding the topics or
\* delivering the retained messages failed; for a SUBSCRIBE that does not
\* decode no SUBACK is sent and no subscription is added.
C34_OneSubackPerDecodedSubscribe ==
    [][\A p \in JustHandled : p.type = "Subscribe" =>
        IF p.decodes
        THEN /\ CallsFor(brk_calls', p, "add_topics_to_subscriber") # {}
             /\ \E call \in brk_calls' :
                    /\ CallsFor(brk_calls', p, "send_suback_to") = {call}
                    /\ call.packet_id = p.packet_id
                    /\ call.ok =>
                        /\ Len(outbox'[p.client]) > Len(outbox[p.client])
                        /\ LastOf(outbox'[p.client]).type = "SUBACK"
                        /\ LastOf(outbox'[p.client]).packet_id = p.packet_id
        ELSE /\ brk_calls' = brk_calls
             /\ outbox' = outbox
             /\ subscriptions' = subscriptions]_vars

\* add_topics_to_subscriber failed for a SUBSCRIBE of a client, which was
\* sent the SUBACK with the failure return code and is not subscribed.
C34_Witness ==
    \E p \in brk_done :
        /\ p.type = "Subscribe" /\ p.decodes
        /\ ServerCall(p, 1, "add_topics_to_subscriber", FALSE) \in brk_calls
        /\ ServerCall(p, 3, "send_suback_to", TRUE) \in brk_calls
        /\ subscriptions[p.client] = <<>>
        /\ \E i \in 1..Len(outbox[p.client]) :
                /\ outbox[p.client][i].type = "SUBACK"
                /\ outbox[p.client][i].packet_id = p.packet_id
                /\ outbox[p.client][i].return_codes = <<SubackFailure>>

\* Where packet n is: in the channel, in a closure not yet run, or handled.
PlacesOf(n) ==
    {i \in 1..Len(rx_1) : rx_1[i].n = n}
    \cup {"spawned" : x \in {q \in spawned : q.n = n}}
    \cup {"handled" : x \in {q \in brk_done : q.n = n}}

====
